---- MODULE Spec2Model ----
(***************************************************************************)
(* Model of the keys-manager library: KeyManager (cache, lookups, Rotate,  *)
(* RotateExpired, ReloadCache, InitKeys) over the in-memory MockStore and  *)
(* the MockEncryptor, run by concurrent goroutines.                        *)
(*                                                                         *)
(* Go pointers are heap addresses: the store, the slices returned by       *)
(* store.List and the cached handles all refer to the same *Key objects.   *)
(***************************************************************************)
EXTENDS Integers, Sequences, FiniteSets, TLC

\* ------------------------------------------------------------------ bounds
MaxKeys == 3          \* Key objects allocated in a run (Save and Rotate)
MaxSaves == 1         \* MockStore.Save calls made from outside the manager
MaxCalls == 3         \* calls of the manager's methods made in a run
MaxTime == 2          \* the clock runs from 0 to MaxTime

\* ------------------------------------------------------- program constants
AlgRS256 == "RS256"
AlgES256 == "ES256"
AlgEdDSA == "EdDSA"
SupportedAlgs == {AlgRS256, AlgES256, AlgEdDSA}

\* Inputs the goroutines and the test code draw from.
Threads == {"g1", "g2"}
AlgBad == "BAD"      \* an identifier outside the enumeration, as the tests use
AlgInputs == {AlgRS256, AlgES256, AlgBad}
SaveAlgs == {AlgRS256, AlgES256}
Payloads == {"p"}
TTLs == {1}
SaveKIDs == {<<"k", 1>>}
NoThread == "none"

NoExpiry == -1        \* ExpiresAt == nil

\* ----------------------------------------------------------- key material
NoPriv == [kind |-> "none", id |-> 0, curve |-> ""]
Garbage == [fmt |-> "garbage", k |-> NoPriv]

KindOf(alg) ==
    CASE alg = AlgRS256 -> "RSA"
      [] alg = AlgES256 -> "ECDSA"
      [] alg = AlgEdDSA -> "Ed25519"
      [] OTHER -> "none"

\* The curve of a generated key: P-256 for ES256, none for the others.
CurveOf(alg) == IF alg = AlgES256 THEN "P-256" ELSE ""

\* Mutation: every generated key is an RSA key, whatever the algorithm.
generatePrivateKey_AlwaysRSA(alg, id) ==
    IF alg \in SupportedAlgs
    THEN [ok |-> TRUE, val |-> [kind |-> "RSA", id |-> id, curve |-> ""]]
    ELSE [ok |-> FALSE, val |-> NoPriv]

\* generatePrivateKey: a key of the algorithm's kind; id stands for the random
\* key material (the address of the record it is generated for).
generatePrivateKey(alg, id) ==
    IF alg \in SupportedAlgs
    THEN [ok |-> TRUE, val |-> [kind |-> KindOf(alg), id |-> id, curve |-> CurveOf(alg)]]
    ELSE [ok |-> FALSE, val |-> NoPriv]

marshalPKCS8(priv) ==
    IF priv.kind \in {"RSA", "ECDSA", "Ed25519"}
    THEN [ok |-> TRUE, val |-> [fmt |-> "pkcs8", k |-> priv]]
    ELSE [ok |-> FALSE, val |-> Garbage]

parsePrivateKey(der) ==
    IF der.fmt = "pkcs8" /\ der.k.kind \in {"RSA", "ECDSA", "Ed25519"}
    THEN [ok |-> TRUE, val |-> der.k]
    ELSE [ok |-> FALSE, val |-> NoPriv]

Public(priv) == [kind |-> priv.kind, id |-> priv.id, curve |-> priv.curve]

\* MockEncryptor: Encrypt copies the bytes under an empty nonce; Decrypt
\* copies them back unless ForceDecryptError is set.
MockEncrypt(b) == [Nonce |-> <<>>, Ciphertext |-> b]

MockDecrypt(force, e) ==
    IF force THEN [ok |-> FALSE, val |-> Garbage]
    ELSE [ok |-> TRUE, val |-> e.Ciphertext]

\* Mutation: every id gets the suffix of the first.
generateKID_Reused(alg, n) == <<alg, 1>>

\* generateKID: "<alg>_<random suffix>"; the suffix drawn is one not drawn
\* before (n is the address of the record the id is generated for).
generateKID(alg, n) == <<alg, n>>

\* const size = 12: the random bytes of a suffix; those of the n-th draw.
KIDSize == 12
SuffixBytes(n) == [k \in 1..KIDSize |-> (37 * n + 11 * k) % 256]

\* base64.RawURLEncoding.EncodeToString: the 6-bit groups of the bytes, as
\* indices into the URL alphabet, the last group filled with zero bits and
\* no padding added.
RECURSIVE RawURLEncode(_)
RawURLEncode(b) ==
    IF b = <<>> THEN <<>>
    ELSE IF Len(b) = 1
    THEN <<b[1] \div 4, (b[1] % 4) * 16>>
    ELSE IF Len(b) = 2
    THEN <<b[1] \div 4, (b[1] % 4) * 16 + b[2] \div 16, (b[2] % 16) * 4>>
    ELSE <<b[1] \div 4, (b[1] % 4) * 16 + b[2] \div 16,
           (b[2] % 16) * 4 + b[3] \div 64, b[3] % 64>>
         \o RawURLEncode(SubSeq(b, 4, Len(b)))

\* fmt.Sprintf("%s_%s", alg, randomPart): the text of an id.
KIDText(kid) ==
    [alg |-> kid[1], sep |-> "_", suffix |-> RawURLEncode(SuffixBytes(kid[2]))]

\* -------------------------------------------------------------- structures
NoKID == <<"", 0>>
NilKey == [KID |-> NoKID, Alg |-> "", IsActive |-> FALSE, CreatedAt |-> 0,
           ExpiresAt |-> NoExpiry, EncryptedKey |-> MockEncrypt(Garbage)]
\* a nil *CachedKey
NilCK == [key |-> 0, priv |-> NoPriv, pub |-> NoPriv]

\* Go map read: the zero value (nil) for a missing key.
MapGet(m, k) == IF k \in DOMAIN m THEN m[k] ELSE NilCK
MapPut(m, k, v) == [x \in (DOMAIN m) \cup {k} |-> IF x = k THEN v ELSE m[x]]
EmptyMap == [x \in {} |-> NilCK]

\* All orders in which a Go map of the given addresses can be iterated.
Range(q) == {q[k] : k \in 1..Len(q)}
Count(q, x) == Cardinality({k \in 1..Len(q) : q[k] = x})

RECURSIVE Orders(_)
Orders(S) ==
    IF S = {} THEN {<<>>}
    ELSE UNION {{<<a>> \o rest : rest \in Orders(S \ {a})} : a \in S}

VARIABLES
    heap,        \* the *Key objects, by address 1..Len(heap)
    data,        \* MockStore.data: KID -> address
    saves,       \* number of MockStore.Save calls made
    ncalls,      \* number of calls of the manager's methods made
    now,         \* time.Now()
    cache,       \* KeyManager.cache: KID -> CachedKey
    active,      \* KeyManager.active: Alg -> CachedKey
    mu,          \* KeyManager.mu: [writer, readers]
    builtWith,   \* history: what the reload that wrote cache built and listed
    th           \* per goroutine: position and locals

vars == <<heap, data, saves, ncalls, now, cache, active, mu, builtWith, th>>

storeVars == <<heap, data>>
envVars == <<saves, ncalls, now>>
cacheVars == <<cache, active, mu, builtWith>>

\* ------------------------------------------------------------ goroutines
NoCalls == [policy |-> 0, list |-> 0, generate |-> 0, encrypt |-> 0,
            storeRotate |-> 0, reload |-> 0, read |-> 0, write |-> 0]

NoSig == [by |-> NoPriv, over |-> "", enc |-> "none", bytes |-> <<>>]

\* What a caller holds after a Sign: the id build was given and the record it
\* is the id of, the bytes build returned, the signature.
NoHeld == [kid |-> NoKID, key |-> 0, bytes |-> <<>>, sig |-> NoSig]

\* History kept per call for stating the properties: what the cache and the
\* store held when the call began (pre), the algorithms whose stored records
\* were written by someone else since the call began (raced) and since the
\* call's last ReloadCache listed the store (dirty), the goroutines whose
\* calls ran while this one did (over), and how often the call has reached
\* each collaborator (calls). A Verify of a signature that Sign returned
\* keeps what Sign was given and gave (held). InitKeys and RotateExpired
\* walk algs with the index j; their history is what each algorithm's test
\* found (seen), the algorithms Rotate was called for (rotated) and how each
\* of these calls ended (outs).
NoPre == [cache |-> EmptyMap, active |-> EmptyMap, data |-> [x \in {} |-> 0], act |-> {}]

IdleTh == [pc |-> "idle", op |-> "none", alg |-> "", kid |-> NoKID,
           payload |-> "", sig |-> NoSig,
           algs |-> <<>>, errs |-> <<>>, snap |-> EmptyMap, ttl |-> 0,
           keys |-> <<>>, i |-> 0, newCache |-> EmptyMap, newActive |-> EmptyMap,
           oldKey |-> NilKey, newKey |-> NilKey, ck |-> NilCK, rlErr |-> "",
           rotErr |-> "", err |-> "", out |-> NoSig, jwks |-> <<>>,
           pre |-> NoPre, raced |-> {}, dirty |-> {}, over |-> {},
           held |-> NoHeld, calls |-> NoCalls,
           j |-> 0, tnow |-> 0, seen |-> <<>>, rotated |-> <<>>, outs |-> <<>>,
           der |-> <<>>, raw |-> <<>>,
           mkey |-> <<>>, dkey |-> <<>>, plain |-> <<>>,
           sealed |-> [Nonce |-> <<>>, Ciphertext |-> <<>>],
           box |-> [Nonce |-> <<>>, Ciphertext |-> <<>>], opened |-> <<>>]

Set(t, r) == th' = [th EXCEPT ![t] = r]

Running(u) == th[u].pc \notin {"idle", "done"}

\* t begins a call as r; the calls in progress and this one overlap.
Begin(t, r) ==
    th' = [u \in Threads |->
             IF u = t THEN [r EXCEPT !.over = {v \in Threads \ {t} : Running(v)}]
             ELSE IF Running(u) THEN [th[u] EXCEPT !.over = @ \cup {t}]
             ELSE th[u]]

Bump(c, f) == [c EXCEPT ![f] = @ + 1]

\* A store write by t (or, with t = NoThread, from outside) that touches the
\* algorithms A is noted in the history of every other call.
Dirty(t, A) ==
    [u \in Threads |->
        IF u # t /\ th[u].pc # "idle"
        THEN [th[u] EXCEPT !.dirty = @ \cup A, !.raced = @ \cup A]
        ELSE th[u]]

StoreAddrs == {data[k] : k \in DOMAIN data}
ActiveAddrs(alg) == {a \in StoreAddrs : heap[a].Alg = alg /\ heap[a].IsActive}

\* The state a call starts in.
Pre == [cache |-> cache, active |-> active, data |-> data,
        act |-> {a \in StoreAddrs : heap[a].IsActive}]

Init ==
    /\ heap = <<>>
    /\ data = [x \in {} |-> 0]
    /\ saves = 0
    /\ ncalls = 0
    /\ now = 0
    /\ cache = EmptyMap
    /\ active = EmptyMap
    /\ mu = [writer |-> NoThread, readers |-> {}]
    /\ builtWith = [active |-> EmptyMap, listed |-> {}]
    /\ th = [t \in Threads |-> IdleTh]

\* ----------------------------------------------------------- environment
\* MockStore.Save, as the tests call it: stores a record built outside the
\* manager under its KID, replacing whatever was stored under that KID.
Save(kid, alg, isActive, expires, valid) ==
    /\ saves < MaxSaves
    /\ Len(heap) < MaxKeys
    /\ LET a == Len(heap) + 1
           priv == generatePrivateKey(alg, a).val
           key == [KID |-> kid, Alg |-> alg, IsActive |-> isActive,
                   CreatedAt |-> now, ExpiresAt |-> expires,
                   EncryptedKey |-> MockEncrypt(IF valid THEN marshalPKCS8(priv).val
                                                ELSE Garbage)]
           touched == {alg} \cup (IF kid \in DOMAIN data THEN {heap[data[kid]].Alg} ELSE {})
       IN /\ heap' = Append(heap, key)
          /\ data' = [x \in (DOMAIN data) \cup {kid} |-> IF x = kid THEN a ELSE data[x]]
          /\ th' = Dirty(NoThread, touched)
    /\ saves' = saves + 1
    /\ UNCHANGED <<ncalls, now, cacheVars>>

\* ---------------------------------------------------------- MockStore
\* MockStore.List / FailingStore.List: the stored pointers in map order.
StoreList == Orders(StoreAddrs)

\* Mutation: the store inserts the new record and forgets the old one.
MockStoreRotateHeap_KeepsOld(h, d, old) == h

\* MockStore.Rotate on the heap: the stored record with old's KID is
\* deactivated in place.
MockStoreRotateHeap(h, d, old) ==
    IF old.KID # NoKID /\ old.KID \in DOMAIN d
    THEN [h EXCEPT ![d[old.KID]].IsActive = FALSE]
    ELSE h

\* Mutation: the new record is not inserted.
MockStoreRotateData_DropsNew(h, d, newAddr) == d

\* Mutation: the store keeps the new record only.
MockStoreRotateData_OnlyNew(h, d, newAddr) ==
    [x \in {h[newAddr].KID} |-> newAddr]

\* MockStore.Rotate on the map: the new record is stored under its KID.
MockStoreRotateData(h, d, newAddr) ==
    [x \in (DOMAIN d) \cup {h[newAddr].KID} |->
        IF x = h[newAddr].KID THEN newAddr ELSE d[x]]

\* ------------------------------------------------------------ ReloadCache
\* Entry of ReloadCache: store.List.
ReloadList(t) ==
    /\ th[t].pc = "rl_list"
    /\ \E FailList \in BOOLEAN :
       IF FailList
       THEN Set(t, [th[t] EXCEPT !.pc = "rl_ret", !.rlErr = "list failed",
                                 !.calls = Bump(Bump(@, "reload"), "list")])
       ELSE \E ks \in StoreList :
              Set(t, [th[t] EXCEPT !.pc = IF ks = <<>> THEN "rl_swap" ELSE "rl_loop",
                                   !.keys = ks, !.i = 1,
                                   !.newCache = EmptyMap, !.newActive = EmptyMap,
                                   !.dirty = {},
                                   !.calls = Bump(Bump(@, "reload"), "list")])
    /\ UNCHANGED <<storeVars, envVars, cacheVars>>

\* Mutation: the loop fills the manager's maps in place, so an abort leaves
\* the entries built so far in them.
ReloadAbort_Publishes(t, e) ==
    /\ Set(t, [th[t] EXCEPT !.pc = "rl_ret", !.rlErr = e])
    /\ cache' = th[t].newCache
    /\ active' = th[t].newActive
    /\ UNCHANGED <<mu, builtWith>>

\* return fmt.Errorf(...) out of the loop: nothing built so far is published.
ReloadAbort(t, e) ==
    /\ Set(t, [th[t] EXCEPT !.pc = "rl_ret", !.rlErr = e])
    /\ UNCHANGED cacheVars

\* Mutation: the active map gets a handle of its own, without the public key.
NewActiveWith_OwnHandle(newActive, k, ck) ==
    IF k.IsActive THEN MapPut(newActive, k.Alg, [ck EXCEPT !.pub = Public(NoPriv)])
    ELSE newActive

\* Mutation: the first active record listed keeps the algorithm's slot.
NewActiveWith_FirstWins(newActive, k, ck) ==
    IF k.IsActive /\ k.Alg \notin DOMAIN newActive
    THEN MapPut(newActive, k.Alg, ck) ELSE newActive

\* Mutation: the IsActive test is dropped.
NewActiveWith_Any(newActive, k, ck) == MapPut(newActive, k.Alg, ck)

\* if k.IsActive { newActive[k.Alg] = ck }
NewActiveWith(newActive, k, ck) ==
    IF k.IsActive THEN MapPut(newActive, k.Alg, ck) ELSE newActive

\* Mutation: only active records get an entry.
NewCacheWith_ActiveOnly(newCache, k, ck) ==
    IF k.IsActive THEN MapPut(newCache, k.KID, ck) ELSE newCache

\* newCache[k.KID] = ck
NewCacheWith(newCache, k, ck) == MapPut(newCache, k.KID, ck)

\* One iteration of the loop over the listed records. The encryptor is a
\* collaborator: its Decrypt may fail on any call (ForceDecryptError).
ReloadLoop(t) ==
    /\ th[t].pc = "rl_loop"
    /\ \E ForceDecryptError \in BOOLEAN :
       LET r == th[t]
           a == r.keys[r.i]
           k == heap[a]
           privBytes == MockDecrypt(ForceDecryptError, k.EncryptedKey)
           priv == parsePrivateKey(privBytes.val)
           ck == [key |-> a, priv |-> priv.val, pub |-> Public(priv.val)]
       IN IF ~privBytes.ok
          THEN ReloadAbort(t, "decrypt key")
          ELSE IF ~priv.ok
          THEN ReloadAbort(t, "parse key")
          ELSE /\ Set(t, [r EXCEPT
                      !.newCache = NewCacheWith(@, k, ck),
                      !.newActive = NewActiveWith(@, k, ck),
                      !.i = @ + 1,
                      !.pc = IF r.i = Len(r.keys) THEN "rl_swap" ELSE "rl_loop"])
               /\ UNCHANGED cacheVars
    /\ UNCHANGED <<storeVars, envVars>>

\* Mutation: the writer takes the lock without waiting for the readers.
ReloadSwapCache_NoWait(t) ==
    /\ th[t].pc = "rl_swap"
    /\ mu.writer = NoThread
    /\ mu' = [mu EXCEPT !.writer = t]
    /\ cache' = th[t].newCache
    /\ builtWith' = [active |-> th[t].newActive,
                     listed |-> {heap[th[t].keys[j]].KID : j \in 1..Len(th[t].keys)}]
    /\ Set(t, [th[t] EXCEPT !.pc = "rl_swap2", !.calls = Bump(@, "write")])
    /\ UNCHANGED <<storeVars, envVars, active>>

\* km.mu.Lock(); km.cache = newCache
ReloadSwapCache(t) ==
    /\ th[t].pc = "rl_swap"
    /\ mu.writer = NoThread /\ mu.readers = {}
    /\ mu' = [mu EXCEPT !.writer = t]
    /\ cache' = th[t].newCache
    /\ builtWith' = [active |-> th[t].newActive,
                     listed |-> {heap[th[t].keys[j]].KID : j \in 1..Len(th[t].keys)}]
    /\ Set(t, [th[t] EXCEPT !.pc = "rl_swap2", !.calls = Bump(@, "write")])
    /\ UNCHANGED <<storeVars, envVars, active>>

\* km.active = newActive; km.mu.Unlock(); return nil
ReloadSwapActive(t) ==
    /\ th[t].pc = "rl_swap2"
    /\ mu.writer = t
    /\ active' = th[t].newActive
    /\ mu' = [mu EXCEPT !.writer = NoThread]
    /\ Set(t, [th[t] EXCEPT !.pc = "rl_ret", !.rlErr = "nil", !.calls = Bump(@, "write")])
    /\ UNCHANGED <<storeVars, envVars, cache, builtWith>>

\* Mutation: a lookup's reload hands its error to the lookup's caller.
ReloadReturn_Surfaces(t) ==
    /\ th[t].pc = "rl_ret"
    /\ LET r == [th[t] EXCEPT !.keys = <<>>, !.i = 0, !.newCache = EmptyMap,
                              !.newActive = EmptyMap]
       IN CASE r.op = "ReloadCache" ->
                 Set(t, [r EXCEPT !.pc = "done", !.err = r.rlErr])
            [] r.op \in {"Sign", "Verify"} ->
                 IF r.rlErr = "nil"
                 THEN Set(t, [r EXCEPT !.pc = "lk_rlock2"])
                 ELSE Set(t, [r EXCEPT !.pc = "done", !.err = r.rlErr])
            [] OTHER ->
                 Set(t, [r EXCEPT !.pc = "rot_ret", !.rotErr = r.rlErr])
    /\ UNCHANGED <<storeVars, envVars, cacheVars>>

\* ReloadCache returns to its caller: activeKey / keyByKID discard the
\* error, Rotate and a direct caller receive it.
ReloadReturn(t) ==
    /\ th[t].pc = "rl_ret"
    /\ LET r == [th[t] EXCEPT !.keys = <<>>, !.i = 0, !.newCache = EmptyMap,
                              !.newActive = EmptyMap]
       IN CASE r.op = "ReloadCache" ->
                 Set(t, [r EXCEPT !.pc = "done", !.err = r.rlErr])
            [] r.op \in {"Sign", "Verify"} ->
                 Set(t, [r EXCEPT !.pc = "lk_rlock2"])
            [] OTHER ->
                 Set(t, [r EXCEPT !.pc = "rot_ret", !.rotErr = r.rlErr])
    /\ UNCHANGED <<storeVars, envVars, cacheVars>>

\* ------------------------------------------------- activeKey / keyByKID
\* km.mu.RLock() of the first read
LookupRLock(t) ==
    /\ th[t].pc = "lk_rlock1"
    /\ mu.writer = NoThread
    /\ mu' = [mu EXCEPT !.readers = @ \cup {t}]
    /\ Set(t, [th[t] EXCEPT !.pc = "lk_read1"])
    /\ UNCHANGED <<storeVars, envVars, cache, active, builtWith>>

\* The map read of a lookup: km.active[alg] for Sign, km.cache[kid] for Verify.
LookupValue(r) ==
    IF r.op = "Sign" THEN MapGet(active, r.alg) ELSE MapGet(cache, r.kid)

\* Mutation: the first read goes on to ReloadCache whatever it found.
LookupRead_AlwaysReloads(t) ==
    /\ th[t].pc = "lk_read1"
    /\ t \in mu.readers
    /\ mu' = [mu EXCEPT !.readers = @ \ {t}]
    /\ Set(t, [th[t] EXCEPT !.ck = LookupValue(th[t]), !.calls = Bump(@, "read"),
                            !.pc = "rl_list"])
    /\ UNCHANGED <<storeVars, envVars, cache, active, builtWith>>

\* Mutation: on a miss the read lock is kept while ReloadCache runs.
LookupRead_KeepsRLock(t) ==
    /\ th[t].pc = "lk_read1"
    /\ t \in mu.readers
    /\ LET ck == LookupValue(th[t])
       IN /\ mu' = IF ck # NilCK THEN [mu EXCEPT !.readers = @ \ {t}] ELSE mu
          /\ Set(t, [th[t] EXCEPT !.ck = ck, !.calls = Bump(@, "read"),
                                  !.pc = IF ck # NilCK THEN "lk_ret" ELSE "rl_list"])
    /\ UNCHANGED <<storeVars, envVars, cache, active, builtWith>>

\* ck := km.active[alg] (km.cache[kid]); km.mu.RUnlock(); a hit returns, a
\* miss goes on to ReloadCache.
LookupRead(t) ==
    /\ th[t].pc = "lk_read1"
    /\ t \in mu.readers
    /\ mu' = [mu EXCEPT !.readers = @ \ {t}]
    /\ LET ck == LookupValue(th[t])
       IN Set(t, [th[t] EXCEPT !.ck = ck, !.calls = Bump(@, "read"),
                               !.pc = IF ck # NilCK THEN "lk_ret" ELSE "rl_list"])
    /\ UNCHANGED <<storeVars, envVars, cache, active, builtWith>>

\* km.mu.RLock() of the read after the reload
LookupRLockAgain(t) ==
    /\ th[t].pc = "lk_rlock2"
    /\ mu.writer = NoThread
    /\ mu' = [mu EXCEPT !.readers = @ \cup {t}]
    /\ Set(t, [th[t] EXCEPT !.pc = "lk_read2"])
    /\ UNCHANGED <<storeVars, envVars, cache, active, builtWith>>

\* return km.active[alg] (km.cache[kid]) under the deferred RUnlock
LookupReadAgain(t) ==
    /\ th[t].pc = "lk_read2"
    /\ t \in mu.readers
    /\ mu' = [mu EXCEPT !.readers = @ \ {t}]
    /\ Set(t, [th[t] EXCEPT !.ck = LookupValue(th[t]), !.calls = Bump(@, "read"),
                            !.pc = "lk_ret"])
    /\ UNCHANGED <<storeVars, envVars, cache, active, builtWith>>

\* ------------------------------------------------------ AESGCMEncryptor
\* The sizes of the scheme: the master key, gcm.NonceSize(), and the tag
\* Seal appends.
MasterKeySize == 32
NonceSize == 12
TagSize == 16

\* The exclusive or of two bytes, bit by bit.
RECURSIVE XorBits(_, _, _)
XorBits(a, b, n) ==
    IF n = 0 THEN 0
    ELSE ((a + b) % 2) + 2 * XorBits(a \div 2, b \div 2, n - 1)

Xor(a, b) == XorBits(a, b, 8)

\* The sum of w(i) * b[i] over the bytes of b, for the weights i + from.
RECURSIVE Weighted(_, _)
Weighted(b, from) ==
    IF b = <<>> THEN 0
    ELSE (from * Head(b) + Weighted(Tail(b), from + 1)) % 65536

\* The cipher and the authenticator of the standard library's AES-GCM are
\* stood for by byte arithmetic with their shape: a key stream that depends
\* on the key, the nonce and the position, and a tag that depends on the
\* key, the nonce and every byte of the ciphertext.
KeyStream(key, nonce, i) ==
    (7 * Weighted(key, 1) + 13 * Weighted(nonce, 1) + 31 * i + 5) % 256

Tag(key, nonce, ct) ==
    [j \in 1..TagSize |->
        ((j + 2) * Weighted(key, 1) + Weighted(nonce, 1) + Weighted(ct, 13)
           + Len(ct) + j) % 256]

\* gcm.Seal(nil, nonce, plaintext, nil): the plaintext under the key
\* stream, then the tag.
gcmSeal(key, nonce, plaintext) ==
    LET ct == [i \in 1..Len(plaintext) |-> Xor(plaintext[i], KeyStream(key, nonce, i))]
    IN ct \o Tag(key, nonce, ct)

\* Mutation: the bytes are returned without their tag having been checked.
gcmOpen_Unauthenticated(key, nonce, ciphertext) ==
    IF Len(ciphertext) < TagSize THEN [ok |-> FALSE, val |-> <<>>]
    ELSE LET ct == SubSeq(ciphertext, 1, Len(ciphertext) - TagSize)
         IN [ok |-> TRUE,
             val |-> [i \in 1..Len(ct) |-> Xor(ct[i], KeyStream(key, nonce, i))]]

\* Mutation: the key stream is applied one position off.
gcmOpen_StreamOff(key, nonce, ciphertext) ==
    IF Len(ciphertext) < TagSize THEN [ok |-> FALSE, val |-> <<>>]
    ELSE LET ct == SubSeq(ciphertext, 1, Len(ciphertext) - TagSize)
             tag == SubSeq(ciphertext, Len(ciphertext) - TagSize + 1, Len(ciphertext))
         IN IF tag # Tag(key, nonce, ct) THEN [ok |-> FALSE, val |-> <<>>]
            ELSE [ok |-> TRUE,
                  val |-> [i \in 1..Len(ct) |-> Xor(ct[i], KeyStream(key, nonce, i + 1))]]

\* gcm.Open(nil, nonce, ciphertext, nil): fails on an input shorter than a
\* tag or whose tag is not the one of its bytes; otherwise the bytes under
\* the key stream.
gcmOpen(key, nonce, ciphertext) ==
    IF Len(ciphertext) < TagSize THEN [ok |-> FALSE, val |-> <<>>]
    ELSE LET ct == SubSeq(ciphertext, 1, Len(ciphertext) - TagSize)
             tag == SubSeq(ciphertext, Len(ciphertext) - TagSize + 1, Len(ciphertext))
         IN IF tag # Tag(key, nonce, ct) THEN [ok |-> FALSE, val |-> <<>>]
            ELSE [ok |-> TRUE,
                  val |-> [i \in 1..Len(ct) |-> Xor(ct[i], KeyStream(key, nonce, i))]]

\* NewAESGCMEncryptor(masterKey)
NewAESGCMEncryptor(t) ==
    /\ th[t].pc = "aes_new"
    /\ IF Len(th[t].mkey) # MasterKeySize
       THEN Set(t, [th[t] EXCEPT !.pc = "done", !.op = "NewAESGCMEncryptor",
                                 !.err = "master key must be 32 bytes"])
       ELSE Set(t, [th[t] EXCEPT !.pc = "aes_enc"])
    /\ UNCHANGED <<storeVars, envVars, cacheVars>>

\* Encrypt: a fresh nonce of NonceSize bytes, and Seal under it.
AESGCMEncrypt(t, nonces) ==
    /\ th[t].pc = "aes_enc"
    /\ \E nonce \in nonces :
          Set(t, [th[t] EXCEPT !.pc = "aes_enc_ret", !.op = "Encrypt", !.err = "nil",
                    !.sealed = [Nonce |-> nonce,
                                Ciphertext |-> gcmSeal(th[t].mkey, nonce, th[t].plain)]])
    /\ UNCHANGED <<storeVars, envVars, cacheVars>>

\* Decrypt: the nonce's length is checked, then Open.
AESGCMDecrypt(t) ==
    /\ th[t].pc = "aes_dec"
    /\ LET r == th[t]
           plain == gcmOpen(r.dkey, r.box.Nonce, r.box.Ciphertext)
       IN IF Len(r.box.Nonce) # NonceSize
          THEN Set(t, [r EXCEPT !.pc = "done", !.op = "Decrypt", !.err = "invalid nonce size"])
          ELSE IF ~plain.ok
          THEN Set(t, [r EXCEPT !.pc = "done", !.op = "Decrypt", !.err = "decrypt"])
          ELSE Set(t, [r EXCEPT !.pc = "done", !.op = "Decrypt", !.err = "nil",
                                !.opened = plain.val])
    /\ UNCHANGED <<storeVars, envVars, cacheVars>>

\* ------------------------------------------------------- signature codec
\* Byte strings are sequences of numbers 0..255. A big.Int is held as its
\* sign and its magnitude, the big-endian bytes without leading zeros that
\* big.Int.Bytes() returns (none for zero).
RawSize == 32         \* var size = 32

Zeros(n) == [k \in 1..n |-> 0]

RECURSIVE StripZeros(_)
StripZeros(b) == IF b # <<>> /\ Head(b) = 0 THEN StripZeros(Tail(b)) ELSE b

Front(b) == SubSeq(b, 1, Len(b) - 1)

RECURSIVE AddOne(_)
AddOne(b) ==
    IF b = <<>> THEN <<1>>
    ELSE IF b[Len(b)] < 255 THEN Front(b) \o <<b[Len(b)] + 1>>
    ELSE AddOne(Front(b)) \o <<0>>

\* The value of an INTEGER's content bytes (two's complement, big-endian).
BigIntOf(content) ==
    IF content[1] >= 128
    THEN [neg |-> TRUE,
          mag |-> StripZeros(AddOne([k \in 1..Len(content) |-> 255 - content[k]]))]
    ELSE [neg |-> FALSE, mag |-> StripZeros(content)]

\* The length octets that start at b[off], read as a number.
RECURSIVE LongLength(_, _, _, _)
LongLength(b, off, n, acc) ==
    IF n = 0 THEN acc ELSE LongLength(b, off + 1, n - 1, acc * 256 + b[off])

\* asn1's parseTagAndLength at b[off]: the element's tag byte, and where
\* its content starts and ends. Fails on a truncated header, an indefinite
\* or non-minimal length, and content that runs past the end of b. Lengths
\* are of at most two octets.
Element(b, off) ==
    LET bad == [ok |-> FALSE, tag |-> 0, from |-> 0, to |-> 0]
    IN IF off + 1 > Len(b) THEN bad
       ELSE LET l == b[off + 1]
                n == l - 128
            IN IF l < 128
               THEN IF off + 1 + l > Len(b) THEN bad
                    ELSE [ok |-> TRUE, tag |-> b[off], from |-> off + 2, to |-> off + 1 + l]
               ELSE IF n = 0 \/ n > 2 \/ off + 1 + n > Len(b) THEN bad
               ELSE LET len == LongLength(b, off + 2, n, 0)
                    IN IF b[off + 2] = 0 \/ len < 128 \/ off + 1 + n + len > Len(b)
                       THEN bad
                       ELSE [ok |-> TRUE, tag |-> b[off], from |-> off + 2 + n,
                             to |-> off + 1 + n + len]

\* asn1's parseBigInt of the INTEGER at b[off]: the tag must be INTEGER, the
\* content non-empty and minimally encoded.
Integer(b, off) ==
    LET e == Element(b, off)
        c == SubSeq(b, e.from, e.to)
        bad == [ok |-> FALSE, val |-> [neg |-> FALSE, mag |-> <<>>], next |-> 0]
    IN IF ~e.ok \/ e.tag # 2 \/ c = <<>> THEN bad
       ELSE IF Len(c) > 1 /\ ((c[1] = 0 /\ c[2] < 128) \/ (c[1] = 255 /\ c[2] >= 128))
       THEN bad
       ELSE [ok |-> TRUE, val |-> BigIntOf(c), next |-> e.to + 1]

\* asn1.Unmarshal(der, &sig) for struct{ R, S *big.Int }: a SEQUENCE whose
\* first two elements are INTEGERs. What follows the two INTEGERs inside the
\* SEQUENCE is skipped, and what follows the SEQUENCE is returned as rest,
\* which DERToRawECDSA discards.
asn1Unmarshal(der) ==
    LET e == Element(der, 1)
        body == SubSeq(der, e.from, e.to)
        R == Integer(body, 1)
        S == Integer(body, R.next)
        bad == [ok |-> FALSE, R |-> <<>>, S |-> <<>>, rest |-> <<>>]
    IN IF ~e.ok \/ e.tag # 48 THEN bad
       ELSE IF ~R.ok THEN bad
       ELSE IF ~S.ok THEN bad
       ELSE [ok |-> TRUE, R |-> R.val.mag, S |-> S.val.mag,
             rest |-> SubSeq(der, e.to + 1, Len(der))]
signingOptions(alg) ==
    CASE alg \in {AlgRS256, AlgES256} -> [ok |-> TRUE, hash |-> "SHA256"]
      [] alg = AlgEdDSA -> [ok |-> TRUE, hash |-> "none"]
      [] OTHER -> [ok |-> FALSE, hash |-> "none"]

Digest(hash, m) == IF hash = "none" THEN <<"msg", m>> ELSE <<hash, m>>

\* The DER INTEGER of a non-negative number given by its magnitude.
derInteger(mag) ==
    LET content == IF mag = <<>> THEN <<0>>
                   ELSE IF mag[1] >= 128 THEN <<0>> \o mag ELSE mag
    IN <<2, Len(content)>> \o content

\* The DER SEQUENCE{R, S} that ecdsa signing and asn1.Marshal produce, for
\* numbers whose encoding stays below 128 bytes.
asn1Marshal(R, S) ==
    LET body == derInteger(R) \o derInteger(S)
    IN <<48, Len(body)>> \o body

\* n bytes: hi, then fill.
Fill(n, hi, fill) == [k \in 1..n |-> IF k = 1 THEN hi ELSE fill]

\* The pairs (R, S) an ECDSA P-256 signer draws from: numbers below the
\* group order, so of at most 32 bytes each; here one with a short R and one
\* with a short S, the long ones with and without the top bit set.
ECDSANumbers == {<<Fill(31, 1, 7), Fill(32, 200, 9)>>, <<Fill(32, 90, 9), <<5>>>>}

\* The pairs a P-384 signer draws from: numbers below that group's order,
\* of up to 48 bytes each.
P384Numbers == {<<Fill(48, 1, 7), Fill(48, 200, 9)>>, <<Fill(47, 90, 9), Fill(33, 1, 0)>>}

\* The numbers a key signs with: none but for ECDSA.
NumbersOf(priv) ==
    IF priv.kind # "ECDSA" THEN {<<<<>>, <<>>>>}
    ELSE IF priv.curve = "P-384" THEN P384Numbers
    ELSE ECDSANumbers

\* The signer's native signature with the numbers rs: RSA PKCS#1 v1.5,
\* ECDSA in DER, Ed25519. The record says whose signature it is and over
\* what; the bytes are kept for ECDSA only.
NativeSign(priv, digest, rs) ==
    [by |-> Public(priv), over |-> digest,
     enc |-> IF priv.kind = "ECDSA" THEN "DER" ELSE priv.kind,
     bytes |-> IF priv.kind = "ECDSA" THEN asn1Marshal(rs[1], rs[2]) ELSE <<>>]

\* Mutation: R and S are joined without padding.
DERToRawECDSA_Unpadded(alg, der) ==
    LET sig == asn1Unmarshal(der)
    IN IF ~sig.ok
       THEN [ok |-> FALSE, val |-> <<>>, err |-> "asn1 unmarshal"]
       ELSE IF Len(sig.R) > RawSize \/ Len(sig.S) > RawSize
       THEN [ok |-> FALSE, val |-> <<>>, err |-> "R/S too large"]
       ELSE [ok |-> TRUE, err |-> "nil", val |-> sig.R \o sig.S]

\* Mutation: the DER bytes are returned as they came.
DERToRawECDSA_Unconverted(alg, der) == [ok |-> TRUE, val |-> der, err |-> "nil"]

\* DERToRawECDSA: R and S of the DER signature, each left-padded to size
\* bytes.
DERToRawECDSA(alg, der) ==
    LET sig == asn1Unmarshal(der)
    IN IF ~sig.ok
       THEN [ok |-> FALSE, val |-> <<>>, err |-> "asn1 unmarshal"]
       ELSE IF Len(sig.R) > RawSize \/ Len(sig.S) > RawSize
       THEN [ok |-> FALSE, val |-> <<>>, err |-> "R/S too large"]
       ELSE [ok |-> TRUE, err |-> "nil",
             val |-> Zeros(RawSize - Len(sig.R)) \o sig.R
                     \o Zeros(RawSize - Len(sig.S)) \o sig.S]

\* A caller's DERToRawECDSA(AlgES256, der), one step.
ConvertDER(t) ==
    /\ th[t].pc = "cv_call"
    /\ LET c == DERToRawECDSA(AlgES256, th[t].der)
       IN Set(t, [th[t] EXCEPT !.pc = "done", !.raw = c.val, !.err = c.err])
    /\ UNCHANGED <<storeVars, envVars, cacheVars>>

\* What kind of signature bytes are: the raw form is what DERToRawECDSA
\* made of the signer's DER.
RawSig(native, raw) == [native EXCEPT !.enc = "raw", !.bytes = raw]

\* Mutation: the signing key is read from the active map again, after the
\* builder has been given the id of the handle resolved first.
Sign_ResolvesAgain(t) ==
    /\ th[t].pc = "lk_ret" /\ th[t].op = "Sign"
    /\ LET r == th[t]
           again == IF r.alg \in DOMAIN active THEN active[r.alg] ELSE r.ck
       IN \E rs \in NumbersOf(again.priv) :
          LET opts == signingOptions(r.alg)
              native == NativeSign(again.priv,
                                   Digest(opts.hash, <<heap[r.ck.key].KID, r.payload>>), rs)
              raw == DERToRawECDSA(r.alg, native.bytes)
          IN IF r.ck = NilCK
             THEN Set(t, [r EXCEPT !.pc = "done", !.err = "no active key"])
             ELSE IF ~opts.ok
             THEN Set(t, [r EXCEPT !.pc = "done", !.err = "unsupported algorithm"])
             ELSE IF r.alg # AlgES256
             THEN Set(t, [r EXCEPT !.pc = "done", !.err = "nil", !.out = native,
                                   !.kid = heap[r.ck.key].KID])
             ELSE IF ~raw.ok
             THEN Set(t, [r EXCEPT !.pc = "done", !.err = "ecdsa convert"])
             ELSE Set(t, [r EXCEPT !.pc = "done", !.err = "nil",
                                   !.out = RawSig(native, raw.val),
                                   !.kid = heap[r.ck.key].KID])
    /\ UNCHANGED <<storeVars, envVars, cacheVars>>

\* The body of Sign after activeKey has returned. The payload builder is the
\* caller's: it yields the bytes to sign or fails.
Sign(t) ==
    /\ th[t].pc = "lk_ret" /\ th[t].op = "Sign"
    /\ \E rs \in NumbersOf(th[t].ck.priv) :
       LET r == th[t]
           opts == signingOptions(r.alg)
           native == NativeSign(r.ck.priv, Digest(opts.hash, <<heap[r.ck.key].KID, r.payload>>),
                                rs)
           raw == DERToRawECDSA(r.alg, native.bytes)
       IN IF r.ck = NilCK
          THEN Set(t, [r EXCEPT !.pc = "done", !.err = "no active key"])
          ELSE \E built \in BOOLEAN :
                 IF ~built THEN Set(t, [r EXCEPT !.pc = "done", !.err = "build"])
                 ELSE IF ~opts.ok
                 THEN Set(t, [r EXCEPT !.pc = "done", !.err = "unsupported algorithm"])
                 ELSE IF r.alg # AlgES256
                 THEN Set(t, [r EXCEPT !.pc = "done", !.err = "nil", !.out = native,
                                       !.kid = heap[r.ck.key].KID])
                 ELSE IF ~raw.ok
                 THEN Set(t, [r EXCEPT !.pc = "done", !.err = "ecdsa convert"])
                 ELSE Set(t, [r EXCEPT !.pc = "done", !.err = "nil",
                                       !.out = RawSig(native, raw.val),
                                       !.kid = heap[r.ck.key].KID])
    /\ UNCHANGED <<storeVars, envVars, cacheVars>>

\* Mutation: the signature is checked for its key only, not for the bytes.
verifySignature_IgnoresPayload(alg, pub, payload, sig) ==
    IF alg \notin SupportedAlgs THEN "unsupported alg"
    ELSE IF sig.by = pub THEN "nil" ELSE "signature invalid"

verifySignature(alg, pub, payload, sig) ==
    CASE alg = AlgRS256 ->
           IF pub.kind # "RSA" THEN "public key is not RSA"
           ELSE IF sig.enc = "RSA" /\ sig.by = pub /\ sig.over = Digest("SHA256", payload)
                THEN "nil" ELSE "signature invalid"
      [] alg = AlgES256 ->
           IF pub.kind # "ECDSA" THEN "public key is not ECDSA"
           ELSE IF sig.enc = "raw" /\ sig.by = pub /\ sig.over = Digest("SHA256", payload)
                THEN "nil" ELSE "signature invalid"
      [] alg = AlgEdDSA ->
           IF pub.kind # "Ed25519" THEN "public key is not Ed25519"
           ELSE IF sig.enc = "Ed25519" /\ sig.by = pub /\ sig.over = Digest("none", payload)
                THEN "nil" ELSE "signature invalid"
      [] OTHER -> "unsupported alg"

\* The body of Verify after keyByKID has returned.
Verify(t) ==
    /\ th[t].pc = "lk_ret" /\ th[t].op = "Verify"
    /\ LET r == th[t]
       IN IF r.ck = NilCK
          THEN Set(t, [r EXCEPT !.pc = "done", !.err = "key not found"])
          ELSE Set(t, [r EXCEPT !.pc = "done",
                         !.err = verifySignature(heap[r.ck.key].Alg, r.ck.pub,
                                                 r.payload, r.sig)])
    /\ UNCHANGED <<storeVars, envVars, cacheVars>>

\* ------------------------------------------------------------------ JWKS
\* A string of key material is the sequence of its characters, "" is <<>>.
\* base64.RawURLEncoding: one group of characters for each byte.
b64(bytes) == [k \in 1..Len(bytes) |-> <<"b64", bytes[k]>>]

\* big.Int.Bytes(): no bytes for zero.
BigBytes(i) == IF i = 0 THEN <<>> ELSE <<i>>

b64big(i) == b64(BigBytes(i))

\* The numbers of a public key; id stands for the key material.
RSAModulus(pub) == 2 * pub.id + 1
RSAExponent == 65537
ECPointX(pub) == pub.id
ECPointY(pub) == pub.id + 1
Ed25519Bytes(pub) == <<pub.id>>

\* The zero JWK.
ZeroJWK == [Kty |-> "", Kid |-> NoKID, Alg |-> "", Use |-> "",
            N |-> <<>>, E |-> <<>>, Crv |-> "", X |-> <<>>, Y |-> <<>>]

\* Mutation: inactive keys are left out of the document.
RECURSIVE buildJWKS_ActiveOnly(_, _)
buildJWKS_ActiveOnly(c, order) ==
    IF order = <<>> THEN <<>>
    ELSE LET ck == c[Head(order)]
             rest == buildJWKS_ActiveOnly(c, Tail(order))
         IN IF ck.key = 0 \/ ~heap[ck.key].IsActive THEN rest
            ELSE LET k == [ZeroJWK EXCEPT !.Kid = heap[ck.key].KID,
                                          !.Alg = heap[ck.key].Alg, !.Use = "sig"]
                 IN CASE ck.pub.kind = "RSA" ->
                           <<[k EXCEPT !.Kty = "RSA", !.N = b64big(RSAModulus(ck.pub)),
                                       !.E = b64big(RSAExponent)]>> \o rest
                      [] ck.pub.kind = "ECDSA" ->
                           <<[k EXCEPT !.Kty = "EC", !.Crv = "P-256",
                                       !.X = b64big(ECPointX(ck.pub)),
                                       !.Y = b64big(ECPointY(ck.pub))]>> \o rest
                      [] ck.pub.kind = "Ed25519" ->
                           <<[k EXCEPT !.Kty = "OKP", !.Crv = "Ed25519",
                                       !.X = b64(Ed25519Bytes(ck.pub))]>> \o rest
                      [] OTHER -> rest

\* buildJWKS over the map c, visited in the order the range gives: one JWK
\* for each handle that has a record and a public key of a known type.
RECURSIVE buildJWKS(_, _)
buildJWKS(c, order) ==
    IF order = <<>> THEN <<>>
    ELSE LET ck == c[Head(order)]
             rest == buildJWKS(c, Tail(order))
         IN IF ck.key = 0 THEN rest
            ELSE LET k == [ZeroJWK EXCEPT !.Kid = heap[ck.key].KID,
                                          !.Alg = heap[ck.key].Alg, !.Use = "sig"]
                 IN CASE ck.pub.kind = "RSA" ->
                           <<[k EXCEPT !.Kty = "RSA", !.N = b64big(RSAModulus(ck.pub)),
                                       !.E = b64big(RSAExponent)]>> \o rest
                      [] ck.pub.kind = "ECDSA" ->
                           <<[k EXCEPT !.Kty = "EC", !.Crv = "P-256",
                                       !.X = b64big(ECPointX(ck.pub)),
                                       !.Y = b64big(ECPointY(ck.pub))]>> \o rest
                      [] ck.pub.kind = "Ed25519" ->
                           <<[k EXCEPT !.Kty = "OKP", !.Crv = "Ed25519",
                                       !.X = b64(Ed25519Bytes(ck.pub))]>> \o rest
                      [] OTHER -> rest

JSONValue(k, f) ==
    CASE f = "kty" -> k.Kty [] f = "kid" -> k.Kid [] f = "alg" -> k.Alg
      [] f = "use" -> k.Use [] f = "n" -> k.N [] f = "e" -> k.E
      [] f = "crv" -> k.Crv [] f = "x" -> k.X [] f = "y" -> k.Y

\* Mutation: no field is omitted when empty.
MarshalJWK_KeepsEmpty(k) ==
    [f \in {"kty", "kid", "alg", "use", "n", "e", "crv", "x", "y"} |-> JSONValue(k, f)]

\* json.Marshal of a JWK: kty, kid and alg always, the fields tagged
\* omitempty when they are not empty.
MarshalJWK(k) ==
    LET fields == {"kty", "kid", "alg"}
                  \cup {f \in {"use", "crv"} : JSONValue(k, f) # ""}
                  \cup {f \in {"n", "e", "x", "y"} : JSONValue(k, f) # <<>>}
    IN [f \in fields |-> JSONValue(k, f)]

JWKSRLock(t) ==
    /\ th[t].pc = "jw_rlock"
    /\ mu.writer = NoThread
    /\ mu' = [mu EXCEPT !.readers = @ \cup {t}]
    /\ Set(t, [th[t] EXCEPT !.pc = "jw_build"])
    /\ UNCHANGED <<storeVars, envVars, cache, active, builtWith>>

\* jwks := buildJWKS(km.cache); return json.Marshal(jwks), under the
\* deferred RUnlock.
JWKSBuild(t) ==
    /\ th[t].pc = "jw_build"
    /\ t \in mu.readers
    /\ mu' = [mu EXCEPT !.readers = @ \ {t}]
    /\ \E order \in Orders(DOMAIN cache) :
          LET keys == buildJWKS(cache, order)
          IN Set(t, [th[t] EXCEPT !.pc = "done", !.err = "nil",
                                  !.jwks = [k \in 1..Len(keys) |-> MarshalJWK(keys[k])],
                                  !.calls = Bump(@, "read")])
    /\ UNCHANGED <<storeVars, envVars, cache, active, builtWith>>

\* Mutation: the store is listed before the policy is consulted.
RotatePolicy_ListsFirst(t) ==
    /\ th[t].pc = "rot_policy"
    /\ \/ Set(t, [th[t] EXCEPT !.pc = "rot_ret", !.rotErr = "policy error",
                               !.calls = Bump(Bump(@, "list"), "policy")])
       \/ \E ttl \in TTLs :
            Set(t, [th[t] EXCEPT !.pc = "rot_list", !.ttl = ttl,
                                 !.calls = Bump(@, "policy")])
    /\ UNCHANGED <<storeVars, envVars, cacheVars>>

\* ---------------------------------------------------------------- Rotate
\* policy, err := km.policy(): the caller's function yields a TTL or fails.
RotatePolicyOf(t, ttls) ==
    /\ th[t].pc = "rot_policy"
    /\ \/ Set(t, [th[t] EXCEPT !.pc = "rot_ret", !.rotErr = "policy error",
                               !.calls = Bump(@, "policy")])
       \/ \E ttl \in ttls :
            Set(t, [th[t] EXCEPT !.pc = "rot_list", !.ttl = ttl,
                                 !.calls = Bump(@, "policy")])
    /\ UNCHANGED <<storeVars, envVars, cacheVars>>

\* The same with the policy the tests of Rotate construct the manager with.
RotatePolicy(t) == RotatePolicyOf(t, TTLs)

\* Mutation: a failed store.List sends Rotate on to ReloadCache.
RotateList_ReloadsOnFailure(t) ==
    /\ th[t].pc = "rot_list"
    /\ \E FailList \in BOOLEAN :
       IF FailList
       THEN Set(t, [th[t] EXCEPT !.pc = "rl_list", !.rotErr = "list failed",
                                 !.calls = Bump(@, "list")])
       ELSE \E ks \in StoreList :
              Set(t, [th[t] EXCEPT !.pc = "rot_prep", !.keys = ks,
                                   !.calls = Bump(@, "list")])
    /\ UNCHANGED <<storeVars, envVars, cacheVars>>

\* keys, err := km.store.List()
RotateList(t) ==
    /\ th[t].pc = "rot_list"
    /\ \E FailList \in BOOLEAN :
       IF FailList
       THEN Set(t, [th[t] EXCEPT !.pc = "rot_ret", !.rotErr = "list failed",
                                 !.calls = Bump(@, "list")])
       ELSE \E ks \in StoreList :
              Set(t, [th[t] EXCEPT !.pc = "rot_prep", !.keys = ks,
                                   !.calls = Bump(@, "list")])
    /\ UNCHANGED <<storeVars, envVars, cacheVars>>

\* The loop that finds the active record of alg: a copy of the first one in
\* list order, with IsActive cleared; nil when there is none.
RECURSIVE FindOldKey(_, _, _)
FindOldKey(keys, h, alg) ==
    IF keys = <<>> THEN NilKey
    ELSE IF h[Head(keys)].Alg = alg /\ h[Head(keys)].IsActive
         THEN [h[Head(keys)] EXCEPT !.IsActive = FALSE]
         ELSE FindOldKey(Tail(keys), h, alg)

\* newKey := &Key{...}
NewKey(alg, kid, created, ttl, encrypted) ==
    [KID |-> kid, Alg |-> alg, IsActive |-> TRUE, CreatedAt |-> created,
     ExpiresAt |-> created + ttl, EncryptedKey |-> encrypted]

\* Mutation: the record to deactivate is taken from the manager's active
\* map instead of the list.
RotatePrepare_FromCache(t) ==
    /\ th[t].pc = "rot_prep"
    /\ LET r == th[t]
           old == IF r.alg \in DOMAIN active
                  THEN [heap[active[r.alg].key] EXCEPT !.IsActive = FALSE]
                  ELSE NilKey
           newPriv == generatePrivateKey(r.alg, 0)
           privBytes == marshalPKCS8(newPriv.val)
       IN IF ~newPriv.ok
          THEN Set(t, [r EXCEPT !.pc = "rot_ret", !.rotErr = "unknown alg", !.keys = <<>>,
                                !.calls = Bump(@, "generate")])
          ELSE \E Fail \in BOOLEAN :
                 IF Fail
                 THEN Set(t, [r EXCEPT !.pc = "rot_ret", !.rotErr = "encrypt failed",
                                       !.keys = <<>>,
                                       !.calls = Bump(Bump(@, "generate"), "encrypt")])
                 ELSE Set(t, [r EXCEPT !.pc = "rot_store", !.oldKey = old, !.keys = <<>>,
                                       !.newKey = NewKey(r.alg, NoKID, now, r.ttl,
                                                         MockEncrypt(privBytes.val)),
                                       !.calls = Bump(Bump(@, "generate"), "encrypt")])
    /\ UNCHANGED <<storeVars, envVars, cacheVars>>

\* From the scan for the old key to the construction of the new one: key
\* generation, serialization, encryption (the encryptor may fail), the record.
\* The random draws (key material, id suffix) are made when the record is
\* handed to the store, where they are first seen: newKey holds the rest.
RotatePrepare(t) ==
    /\ th[t].pc = "rot_prep"
    /\ LET r == th[t]
           old == FindOldKey(r.keys, heap, r.alg)
           newPriv == generatePrivateKey(r.alg, 0)
           privBytes == marshalPKCS8(newPriv.val)
       IN IF ~newPriv.ok
          THEN Set(t, [r EXCEPT !.pc = "rot_ret", !.rotErr = "unknown alg", !.keys = <<>>,
                                !.calls = Bump(@, "generate")])
          ELSE IF ~privBytes.ok
          THEN Set(t, [r EXCEPT !.pc = "rot_ret", !.rotErr = "marshal pkcs8", !.keys = <<>>,
                                !.calls = Bump(@, "generate")])
          ELSE \E Fail \in BOOLEAN :
                 IF Fail
                 THEN Set(t, [r EXCEPT !.pc = "rot_ret", !.rotErr = "encrypt failed",
                                       !.keys = <<>>,
                                       !.calls = Bump(Bump(@, "generate"), "encrypt")])
                 ELSE Set(t, [r EXCEPT !.pc = "rot_store", !.oldKey = old, !.keys = <<>>,
                                       !.newKey = NewKey(r.alg, NoKID, now, r.ttl,
                                                         MockEncrypt(privBytes.val)),
                                       !.calls = Bump(Bump(@, "generate"), "encrypt")])
    /\ UNCHANGED <<storeVars, envVars, cacheVars>>

\* The record as the store receives it: its id and key material drawn.
Drawn(key, a) ==
    [key EXCEPT !.KID = generateKID(key.Alg, a),
                !.EncryptedKey = MockEncrypt(marshalPKCS8(generatePrivateKey(key.Alg, a).val).val)]

\* km.store.Rotate(newKey, oldKey), then on to ReloadCache.
RotateStore(t) ==
    /\ th[t].pc = "rot_store"
    /\ \E FailRotate \in BOOLEAN :
       IF FailRotate
       THEN /\ Set(t, [th[t] EXCEPT !.pc = "rot_ret", !.rotErr = "rotate failed",
                                    !.newKey = NilKey,
                                    !.calls = Bump(@, "storeRotate")])
            /\ UNCHANGED storeVars
       ELSE /\ Len(heap) < MaxKeys
            /\ LET a == Len(heap) + 1
                   h == Append(heap, Drawn(th[t].newKey, a))
               IN /\ heap' = MockStoreRotateHeap(h, data, th[t].oldKey)
                  /\ data' = MockStoreRotateData(h, data, a)
                  /\ th' = [Dirty(t, {th[t].alg}) EXCEPT
                              ![t] = [th[t] EXCEPT !.pc = "rl_list", !.newKey = h[a],
                                                   !.calls = Bump(@, "storeRotate")]]
    /\ UNCHANGED <<envVars, cacheVars>>

\* Mutation: InitKeys goes on to the next algorithm after a failed Rotate.
RotateReturn_InitKeysGoesOn(t) ==
    /\ th[t].pc = "rot_ret"
    /\ LET r == [th[t] EXCEPT !.ttl = 0]
           o == [alg |-> r.alg, err |-> r.rotErr]
       IN CASE r.op = "InitKeys" ->
                 Set(t, [r EXCEPT !.pc = "ik_loop", !.j = @ + 1, !.outs = Append(@, o)])
            [] r.op = "RotateExpired" ->
                 Set(t, [r EXCEPT !.pc = "re_loop", !.j = @ + 1, !.outs = Append(@, o),
                                  !.errs = IF r.rotErr = "nil" THEN @ ELSE Append(@, o)])
            [] OTHER ->
                 Set(t, [r EXCEPT !.pc = "done", !.err = r.rotErr])
    /\ UNCHANGED <<storeVars, envVars, cacheVars>>

\* Mutation: RotateExpired returns at the first failed Rotate.
RotateReturn_ExpiredStopsAtFirst(t) ==
    /\ th[t].pc = "rot_ret"
    /\ LET r == [th[t] EXCEPT !.ttl = 0]
           o == [alg |-> r.alg, err |-> r.rotErr]
       IN CASE r.op = "InitKeys" ->
                 IF r.rotErr = "nil"
                 THEN Set(t, [r EXCEPT !.pc = "ik_loop", !.j = @ + 1, !.outs = Append(@, o)])
                 ELSE Set(t, [r EXCEPT !.pc = "done", !.err = "failed to initialize key",
                                       !.outs = Append(@, o)])
            [] r.op = "RotateExpired" ->
                 IF r.rotErr = "nil"
                 THEN Set(t, [r EXCEPT !.pc = "re_loop", !.j = @ + 1, !.outs = Append(@, o)])
                 ELSE Set(t, [r EXCEPT !.pc = "done", !.err = "rotation errors",
                                       !.outs = Append(@, o), !.errs = Append(@, o)])
            [] OTHER ->
                 Set(t, [r EXCEPT !.pc = "done", !.err = r.rotErr])
    /\ UNCHANGED <<storeVars, envVars, cacheVars>>

\* Rotate returns: to its caller; to InitKeys, which returns the error
\* wrapped or goes on to the next algorithm; to RotateExpired, which appends
\* the error wrapped to errs and goes on.
RotateReturn(t) ==
    /\ th[t].pc = "rot_ret"
    /\ LET r == [th[t] EXCEPT !.ttl = 0]
           o == [alg |-> r.alg, err |-> r.rotErr]
       IN CASE r.op = "InitKeys" ->
                 IF r.rotErr = "nil"
                 THEN Set(t, [r EXCEPT !.pc = "ik_loop", !.j = @ + 1, !.outs = Append(@, o)])
                 ELSE Set(t, [r EXCEPT !.pc = "done", !.err = "failed to initialize key",
                                       !.outs = Append(@, o)])
            [] r.op = "RotateExpired" ->
                 Set(t, [r EXCEPT !.pc = "re_loop", !.j = @ + 1, !.outs = Append(@, o),
                                  !.errs = IF r.rotErr = "nil" THEN @ ELSE Append(@, o)])
            [] OTHER ->
                 Set(t, [r EXCEPT !.pc = "done", !.err = r.rotErr])
    /\ UNCHANGED <<storeVars, envVars, cacheVars>>

\* ------------------------------------------------------------- InitKeys
\* The call of Rotate(alg) from a loop: Rotate starts with fresh locals.
EnterRotate(r, alg) ==
    [r EXCEPT !.pc = "rot_policy", !.alg = alg, !.rotated = Append(@, alg),
              !.oldKey = NilKey, !.newKey = NilKey, !.rotErr = "", !.rlErr = ""]

\* for _, alg := range algs { km.mu.RLock() ...; after the last: return nil
InitKeysRLock(t) ==
    /\ th[t].pc = "ik_loop"
    /\ IF th[t].j > Len(th[t].algs)
       THEN /\ Set(t, [th[t] EXCEPT !.pc = "done", !.err = "nil"])
            /\ UNCHANGED mu
       ELSE /\ mu.writer = NoThread
            /\ mu' = [mu EXCEPT !.readers = @ \cup {t}]
            /\ Set(t, [th[t] EXCEPT !.pc = "ik_read"])
    /\ UNCHANGED <<storeVars, envVars, cache, active, builtWith>>

\* Mutation: every algorithm is taken to have an active key.
InitKeysRead_SkipsAll(t) ==
    /\ th[t].pc = "ik_read"
    /\ t \in mu.readers
    /\ mu' = [mu EXCEPT !.readers = @ \ {t}]
    /\ Set(t, [th[t] EXCEPT !.pc = "ik_loop", !.j = @ + 1, !.seen = Append(@, TRUE),
                            !.calls = Bump(@, "read")])
    /\ UNCHANGED <<storeVars, envVars, cache, active, builtWith>>

\* _, exists := km.active[alg]; km.mu.RUnlock(); continue if it exists,
\* km.Rotate(alg) otherwise.
InitKeysRead(t) ==
    /\ th[t].pc = "ik_read"
    /\ t \in mu.readers
    /\ mu' = [mu EXCEPT !.readers = @ \ {t}]
    /\ LET r == [th[t] EXCEPT !.calls = Bump(@, "read")]
           alg == r.algs[r.j]
           exists == alg \in DOMAIN active
       IN IF exists
          THEN Set(t, [r EXCEPT !.pc = "ik_loop", !.j = @ + 1, !.seen = Append(@, TRUE)])
          ELSE Set(t, EnterRotate([r EXCEPT !.seen = Append(@, FALSE)], alg))
    /\ UNCHANGED <<storeVars, envVars, cache, active, builtWith>>

\* -------------------------------------------------------- RotateExpired
\* Mutation: a key counts as expired from the instant of its expiry on.
Expired_FromExpiry(key, t) == key.ExpiresAt # NoExpiry /\ key.ExpiresAt <= t

\* ck.key.ExpiresAt != nil && ck.key.ExpiresAt.Before(now)
Expired(key, t) == key.ExpiresAt # NoExpiry /\ key.ExpiresAt < t

\* km.mu.RLock()
RotateExpiredRLock(t) ==
    /\ th[t].pc = "re_rlock"
    /\ mu.writer = NoThread
    /\ mu' = [mu EXCEPT !.readers = @ \cup {t}]
    /\ Set(t, [th[t] EXCEPT !.pc = "re_snap"])
    /\ UNCHANGED <<storeVars, envVars, cache, active, builtWith>>

\* The copy of km.active, km.mu.RUnlock(), now := time.Now(), and the order
\* in which the range over the copy will visit it.
RotateExpiredSnapshot(t) ==
    /\ th[t].pc = "re_snap"
    /\ t \in mu.readers
    /\ mu' = [mu EXCEPT !.readers = @ \ {t}]
    /\ \E order \in Orders(DOMAIN active) :
          Set(t, [th[t] EXCEPT !.pc = "re_loop", !.snap = active, !.tnow = now,
                               !.algs = order, !.j = 1, !.errs = <<>>,
                               !.calls = Bump(@, "read")])
    /\ UNCHANGED <<storeVars, envVars, cache, active, builtWith>>

\* One iteration of the range over the copy: Rotate(alg) for an expired
\* entry; after the last, the errors collected are returned as one.
RotateExpiredLoop(t) ==
    /\ th[t].pc = "re_loop"
    /\ LET r == th[t] IN
       IF r.j > Len(r.algs)
       THEN Set(t, [r EXCEPT !.pc = "done",
                             !.err = IF r.errs = <<>> THEN "nil" ELSE "rotation errors"])
       ELSE LET alg == r.algs[r.j]
                ck == r.snap[alg]
            IN IF Expired(heap[ck.key], r.tnow)
               THEN Set(t, EnterRotate([r EXCEPT !.seen = Append(@, TRUE)], alg))
               ELSE Set(t, [r EXCEPT !.j = @ + 1, !.seen = Append(@, FALSE)])
    /\ UNCHANGED <<storeVars, envVars, cacheVars>>

\* ------------------------------------------------------------- the calls
CallReloadCache(t, pre) ==
    /\ th[t].pc \in {"idle", "done"}
    /\ ncalls < MaxCalls
    /\ ncalls' = ncalls + 1
    /\ Begin(t, [IdleTh EXCEPT !.pre = pre, !.pc = "rl_list", !.op = "ReloadCache"])
    /\ UNCHANGED <<storeVars, saves, now, cacheVars>>

CallRotate(t, alg, pre) ==
    /\ th[t].pc \in {"idle", "done"}
    /\ ncalls < MaxCalls
    /\ ncalls' = ncalls + 1
    /\ Begin(t, [IdleTh EXCEPT !.pre = pre, !.pc = "rot_policy", !.op = "Rotate", !.alg = alg])
    /\ UNCHANGED <<storeVars, saves, now, cacheVars>>

CallSign(t, alg, payload, pre) ==
    /\ th[t].pc \in {"idle", "done"}
    /\ ncalls < MaxCalls
    /\ ncalls' = ncalls + 1
    /\ Begin(t, [IdleTh EXCEPT !.pre = pre, !.pc = "lk_rlock1", !.op = "Sign", !.alg = alg,
                             !.payload = payload])
    /\ UNCHANGED <<storeVars, saves, now, cacheVars>>

\* Ids a caller can ask for: those of the records created so far and those
\* the tests save under.
KnownKIDs == {heap[a].KID : a \in 1..Len(heap)} \cup SaveKIDs

\* Signatures a caller can hold: what Sign yields under a record's key.
SigOf(a, payload) ==
    LET priv == parsePrivateKey(heap[a].EncryptedKey.Ciphertext).val
        native == NativeSign(priv, Digest(signingOptions(heap[a].Alg).hash,
                                          <<heap[a].KID, payload>>),
                             CHOOSE rs \in ECDSANumbers : TRUE)
    IN IF heap[a].Alg = AlgES256
       THEN RawSig(native, DERToRawECDSA(heap[a].Alg, native.bytes).val)
       ELSE native

CallVerify(t, kid, payload, sig, pre) ==
    /\ th[t].pc \in {"idle", "done"}
    /\ ncalls < MaxCalls
    /\ ncalls' = ncalls + 1
    /\ Begin(t, [IdleTh EXCEPT !.pre = pre, !.pc = "lk_rlock1", !.op = "Verify", !.kid = kid,
                             !.payload = payload, !.sig = sig])
    /\ UNCHANGED <<storeVars, saves, now, cacheVars>>

CallJWKS(t, pre) ==
    /\ th[t].pc \in {"idle", "done"}
    /\ ncalls < MaxCalls
    /\ ncalls' = ncalls + 1
    /\ Begin(t, [IdleTh EXCEPT !.pre = pre, !.pc = "jw_rlock", !.op = "JWKS"])
    /\ UNCHANGED <<storeVars, saves, now, cacheVars>>

\* The lists of algorithms InitKeys is called with.
AlgLists ==
    {<<AlgRS256>>, <<AlgRS256, AlgES256>>, <<AlgES256, AlgRS256>>,
     <<AlgRS256, AlgRS256>>, <<AlgES256, AlgBad>>}

CallInitKeys(t, algs, pre) ==
    /\ th[t].pc \in {"idle", "done"}
    /\ ncalls < MaxCalls
    /\ ncalls' = ncalls + 1
    /\ Begin(t, [IdleTh EXCEPT !.pre = pre, !.pc = "ik_loop", !.op = "InitKeys",
                             !.algs = algs, !.j = 1])
    /\ UNCHANGED <<storeVars, saves, now, cacheVars>>

CallRotateExpired(t, pre) ==
    /\ th[t].pc \in {"idle", "done"}
    /\ ncalls < MaxCalls
    /\ ncalls' = ncalls + 1
    /\ Begin(t, [IdleTh EXCEPT !.pre = pre, !.pc = "re_rlock", !.op = "RotateExpired"])
    /\ UNCHANGED <<storeVars, saves, now, cacheVars>>

\* Bytes other than the ones a caller had signed.
OtherPayload == "q"

\* Signatures that differ from sig: over other bytes, by another key, in
\* another encoding.
Forgeries(sig) ==
    {[sig EXCEPT !.over = Digest("SHA256", <<NoKID, OtherPayload>>)],
     [sig EXCEPT !.by = [sig.by EXCEPT !.id = 0]],
     [sig EXCEPT !.enc = IF sig.enc = "DER" THEN "raw" ELSE "DER",
                 !.bytes = IF sig.enc = "raw"
                           THEN asn1Marshal(StripZeros(SubSeq(@, 1, RawSize)),
                                            StripZeros(SubSeq(@, RawSize + 1, 2 * RawSize)))
                           ELSE @]}

\* The caller of a Sign that succeeded calls Verify with the id Sign passed
\* to build, with payload as the bytes and sig as the signature.
CallVerifySigned(t, payload, sig) ==
    /\ th[t].pc = "done" /\ th[t].op = "Sign" /\ th[t].err = "nil"
    /\ ncalls < MaxCalls
    /\ ncalls' = ncalls + 1
    /\ Begin(t, [IdleTh EXCEPT !.pc = "lk_rlock1", !.op = "Verify", !.kid = th[t].kid,
                             !.payload = payload, !.sig = sig,
                             !.held = [kid |-> th[t].kid, key |-> th[t].ck.key,
                                       bytes |-> <<th[t].kid, th[t].payload>>,
                                       sig |-> th[t].out]])
    /\ UNCHANGED <<storeVars, saves, now, cacheVars>>

\* MockStore.Save calls made by the code around the manager.
Env ==
    \E kid \in SaveKIDs, alg \in SaveAlgs, isActive \in BOOLEAN,
       expires \in {NoExpiry}, valid \in BOOLEAN :
       Save(kid, alg, isActive, expires, valid)

\* A goroutine calls a method of the manager; pre is the history of the
\* state the call starts in, kept for the properties that read it.
Call(t, pre) ==
    \/ CallReloadCache(t, pre)
    \/ \E alg \in AlgInputs : CallRotate(t, alg, pre)
    \/ \E alg \in SaveAlgs, p \in Payloads : CallSign(t, alg, p, pre)
    \/ \E kid \in KnownKIDs, p \in Payloads, a \in 1..Len(heap) :
          /\ heap[a].KID = kid
          /\ CallVerify(t, kid, <<kid, p>>, SigOf(a, p), pre)
    \/ CallJWKS(t, pre)

\* A goroutine takes the next step of the method it is in.
Step(t) ==
    \/ ReloadList(t)
    \/ ReloadLoop(t)
    \/ ReloadSwapCache(t)
    \/ ReloadSwapActive(t)
    \/ ReloadReturn(t)
    \/ LookupRLock(t)
    \/ LookupRead(t)
    \/ LookupRLockAgain(t)
    \/ LookupReadAgain(t)
    \/ Sign(t)
    \/ Verify(t)
    \/ JWKSRLock(t)
    \/ JWKSBuild(t)
    \/ RotatePolicy(t)
    \/ RotateList(t)
    \/ RotatePrepare(t)
    \/ RotateStore(t)
    \/ RotateReturn(t)

\* One goroutine calls the manager while the store is written from outside.
Next == Env \/ Call("g1", Pre) \/ Step("g1")

Spec == Init /\ [][Next]_vars

\* The calls of the second goroutine: the two that write.
CallWriter(t, pre) ==
    \/ CallReloadCache(t, pre)
    \/ CallRotate(t, AlgRS256, pre)

\* Two goroutines call the manager concurrently.
NextConc == Call("g1", NoPre) \/ CallWriter("g2", NoPre) \/ \E t \in Threads : Step(t)

SpecConc == Init /\ [][NextConc]_vars

\* One goroutine rotates, reloads and initializes keys while the store is
\* written from outside.
CallInit(t, pre) ==
    \/ CallReloadCache(t, pre)
    \/ \E alg \in SaveAlgs : CallRotate(t, alg, pre)
    \/ \E algs \in AlgLists : CallInitKeys(t, algs, pre)

StepInit(t) ==
    \/ ReloadList(t)
    \/ ReloadLoop(t)
    \/ ReloadSwapCache(t)
    \/ ReloadSwapActive(t)
    \/ ReloadReturn(t)
    \/ RotatePolicy(t)
    \/ RotateList(t)
    \/ RotatePrepare(t)
    \/ RotateStore(t)
    \/ RotateReturn(t)
    \/ InitKeysRLock(t)
    \/ InitKeysRead(t)

NextInit == Env \/ CallInit("g1", Pre) \/ StepInit("g1")

SpecInit == Init /\ [][NextInit]_vars

\* The maps NewKeyManager's ReloadCache builds from the listed records keys
\* when the encryptor and the parser succeed on each.
RECURSIVE Loaded(_, _, _)
Loaded(keys, h, acc) ==
    IF keys = <<>> THEN acc
    ELSE LET a == Head(keys)
             k == h[a]
             priv == parsePrivateKey(MockDecrypt(FALSE, k.EncryptedKey).val)
             ck == [key |-> a, priv |-> priv.val, pub |-> Public(priv.val)]
         IN Loaded(Tail(keys), h,
                   [cache |-> NewCacheWith(acc.cache, k, ck),
                    active |-> NewActiveWith(acc.active, k, ck)])

ExpiryInputs == {NoExpiry, 1, 2}

\* A record saved into the store before the manager is constructed.
BootKey(alg, a, isActive, expires) ==
    [KID |-> generateKID(alg, a), Alg |-> alg, IsActive |-> isActive,
     CreatedAt |-> 0, ExpiresAt |-> expires,
     EncryptedKey |-> MockEncrypt(marshalPKCS8(generatePrivateKey(alg, a).val).val)]

\* The state after NewKeyManager, called at the instant at, over a store
\* that already holds at most one record for each algorithm of bootAlgs,
\* with active flags from acts and expiries from exps.
Boot(bootAlgs, acts, exps, at) ==
    \E present \in SUBSET Range(bootAlgs) :
    \E act \in [present -> acts], exp \in [present -> exps] :
       LET algs == SelectSeq(bootAlgs, LAMBDA x : x \in present)
           h == [a \in 1..Len(algs) |-> BootKey(algs[a], a, act[algs[a]], exp[algs[a]])]
           l == Loaded([a \in 1..Len(algs) |-> a], h,
                       [cache |-> EmptyMap, active |-> EmptyMap])
       IN /\ heap = h
          /\ data = [kid \in {h[a].KID : a \in 1..Len(h)} |->
                       CHOOSE a \in 1..Len(h) : h[a].KID = kid]
          /\ saves = 0
          /\ ncalls = 0
          /\ now = at
          /\ cache = l.cache
          /\ active = l.active
          /\ mu = [writer |-> NoThread, readers |-> {}]
          /\ builtWith = [active |-> l.active,
                          listed |-> {h[a].KID : a \in 1..Len(h)}]
          /\ th = [t \in Threads |-> IdleTh]

\* The clock advances.
Tick ==
    /\ now < MaxTime
    /\ now' = now + 1
    /\ UNCHANGED <<storeVars, saves, ncalls, cacheVars, th>>

\* One goroutine rotates keys, by name or by expiry, as time passes over a
\* store that held records when the manager was constructed.
InitExpired == Boot(<<AlgRS256, AlgES256>>, BOOLEAN, ExpiryInputs, 0)

CallExpired(t, pre) ==
    \/ CallRotateExpired(t, pre)
    \/ \E alg \in SaveAlgs : CallRotate(t, alg, pre)

StepExpired(t) ==
    \/ ReloadList(t)
    \/ ReloadLoop(t)
    \/ ReloadSwapCache(t)
    \/ ReloadSwapActive(t)
    \/ ReloadReturn(t)
    \/ RotatePolicy(t)
    \/ RotateList(t)
    \/ RotatePrepare(t)
    \/ RotateStore(t)
    \/ RotateReturn(t)
    \/ RotateExpiredRLock(t)
    \/ RotateExpiredSnapshot(t)
    \/ RotateExpiredLoop(t)

NextExpired == Tick \/ CallExpired("g1", Pre) \/ StepExpired("g1")

SpecExpired == InitExpired /\ [][NextExpired]_vars

\* One caller signs and verifies what it signed, unchanged or altered;
\* another rotates between the first one's calls.
CallSigner(t) ==
    \/ \E alg \in SupportedAlgs, p \in Payloads : CallSign(t, alg, p, NoPre)
    \/ /\ th[t].pc = "done" /\ th[t].op = "Sign" /\ th[t].err = "nil"
       /\ \E payload \in {<<th[t].kid, th[t].payload>>, <<th[t].kid, OtherPayload>>},
             sig \in {th[t].out} \cup Forgeries(th[t].out) :
             CallVerifySigned(t, payload, sig)

CallRotator(t) == \E alg \in SupportedAlgs : CallRotate(t, alg, NoPre)

StepSign(t) ==
    \/ ReloadList(t)
    \/ ReloadLoop(t)
    \/ ReloadSwapCache(t)
    \/ ReloadSwapActive(t)
    \/ ReloadReturn(t)
    \/ LookupRLock(t)
    \/ LookupRead(t)
    \/ LookupRLockAgain(t)
    \/ LookupReadAgain(t)
    \/ Sign(t)
    \/ Verify(t)
    \/ RotatePolicy(t)
    \/ RotateList(t)
    \/ RotatePrepare(t)
    \/ RotateStore(t)
    \/ RotateReturn(t)

NextSign ==
    \/ Env
    \/ ~Running("g2") /\ CallSigner("g1")
    \/ ~Running("g1") /\ CallRotator("g2")
    \/ \E t \in Threads : StepSign(t)

SpecSign == Init /\ [][NextSign]_vars

\* One goroutine exports, rotates and reloads; the manager was constructed
\* over a store that held at most one record of each algorithm.
InitJWKS == Boot(<<AlgRS256, AlgES256, AlgEdDSA>>, BOOLEAN, {NoExpiry}, 0)

CallExport(t, pre) ==
    \/ CallJWKS(t, pre)
    \/ CallReloadCache(t, pre)
    \/ \E alg \in SupportedAlgs : CallRotate(t, alg, pre)

StepExport(t) ==
    \/ ReloadList(t)
    \/ ReloadLoop(t)
    \/ ReloadSwapCache(t)
    \/ ReloadSwapActive(t)
    \/ ReloadReturn(t)
    \/ JWKSRLock(t)
    \/ JWKSBuild(t)
    \/ RotatePolicy(t)
    \/ RotateList(t)
    \/ RotatePrepare(t)
    \/ RotateStore(t)
    \/ RotateReturn(t)

NextJWKS == CallExport("g1", Pre) \/ StepExport("g1")

SpecJWKS == InitJWKS /\ [][NextJWKS]_vars

\* An ECDSA key on the curve P-384, which parsePrivateKey takes like any
\* other *ecdsa.PrivateKey.
P384Key(id) == [kind |-> "ECDSA", id |-> id, curve |-> "P-384"]

\* The manager is constructed over a store that is empty or holds one
\* active ES256 record, whose key was generated for ES256 or is a P-384 key.
InitES256 ==
    /\ \E priv \in {generatePrivateKey(AlgES256, 1).val, P384Key(1)}, n \in {0, 1} :
         LET h == [a \in 1..n |->
                     [BootKey(AlgES256, a, TRUE, NoExpiry)
                        EXCEPT !.EncryptedKey = MockEncrypt(marshalPKCS8(priv).val)]]
             l == Loaded([a \in 1..n |-> a], h, [cache |-> EmptyMap, active |-> EmptyMap])
         IN /\ heap = h
            /\ data = [kid \in {h[a].KID : a \in 1..n} |-> 1]
            /\ cache = l.cache
            /\ active = l.active
    /\ saves = 0
    /\ ncalls = 0
    /\ now = 0
    /\ mu = [writer |-> NoThread, readers |-> {}]
    /\ builtWith = [active |-> EmptyMap, listed |-> {}]
    /\ th = [t \in Threads |-> IdleTh]

\* One caller signs with ES256, rotates ES256 and reloads; another signs
\* with ES256 between the first one's calls.
CallES256(t) ==
    \/ \E p \in Payloads : CallSign(t, AlgES256, p, NoPre)
    \/ CallRotate(t, AlgES256, NoPre)
    \/ CallReloadCache(t, NoPre)

CallES256Signer(t) == \E p \in Payloads : CallSign(t, AlgES256, p, NoPre)

StepES256(t) ==
    \/ ReloadList(t)
    \/ ReloadLoop(t)
    \/ ReloadSwapCache(t)
    \/ ReloadSwapActive(t)
    \/ ReloadReturn(t)
    \/ LookupRLock(t)
    \/ LookupRead(t)
    \/ LookupRLockAgain(t)
    \/ LookupReadAgain(t)
    \/ Sign(t)
    \/ RotatePolicy(t)
    \/ RotateList(t)
    \/ RotatePrepare(t)
    \/ RotateStore(t)
    \/ RotateReturn(t)

NextES256 ==
    \/ ~Running("g2") /\ CallES256("g1")
    \/ ~Running("g1") /\ CallES256Signer("g2")
    \/ \E t \in Threads : StepES256(t)

SpecES256 == InitES256 /\ [][NextES256]_vars

\* The manager is constructed over a store that is empty or holds one
\* active record whose algorithm is outside the enumeration, with an RSA
\* key.
InitAlg ==
    /\ \E n \in {0, 1} :
         LET priv == generatePrivateKey(AlgRS256, 1).val
             h == [a \in 1..n |->
                     [BootKey(AlgBad, a, TRUE, NoExpiry)
                        EXCEPT !.EncryptedKey = MockEncrypt(marshalPKCS8(priv).val)]]
             l == Loaded([a \in 1..n |-> a], h, [cache |-> EmptyMap, active |-> EmptyMap])
         IN /\ heap = h
            /\ data = [kid \in {h[a].KID : a \in 1..n} |-> 1]
            /\ cache = l.cache
            /\ active = l.active
    /\ saves = 0
    /\ ncalls = 0
    /\ now = 0
    /\ mu = [writer |-> NoThread, readers |-> {}]
    /\ builtWith = [active |-> EmptyMap, listed |-> {}]
    /\ th = [t \in Threads |-> IdleTh]

\* The lists InitKeys is called with here: each holds the identifier
\* outside the enumeration.
BadAlgLists == {<<AlgBad>>, <<AlgES256, AlgBad>>}

\* Calls with the identifier outside the enumeration, and Verify under the
\* id of the record stored with it.
CallAlg(t) ==
    \/ \E p \in Payloads : CallSign(t, AlgBad, p, NoPre)
    \/ CallRotate(t, AlgBad, NoPre)
    \/ \E algs \in BadAlgLists : CallInitKeys(t, algs, NoPre)
    \/ \E p \in Payloads, a \in 1..Len(heap) :
          /\ heap[a].Alg = AlgBad
          /\ CallVerify(t, heap[a].KID, <<heap[a].KID, p>>, SigOf(a, p), NoPre)

StepAlg(t) ==
    \/ ReloadList(t)
    \/ ReloadLoop(t)
    \/ ReloadSwapCache(t)
    \/ ReloadSwapActive(t)
    \/ ReloadReturn(t)
    \/ LookupRLock(t)
    \/ LookupRead(t)
    \/ LookupRLockAgain(t)
    \/ LookupReadAgain(t)
    \/ Sign(t)
    \/ Verify(t)
    \/ RotatePolicy(t)
    \/ RotateList(t)
    \/ RotatePrepare(t)
    \/ RotateStore(t)
    \/ RotateReturn(t)
    \/ InitKeysRLock(t)
    \/ InitKeysRead(t)

NextAlg == CallAlg("g1") \/ StepAlg("g1")

SpecAlg == InitAlg /\ [][NextAlg]_vars

\* The master keys encryptors are built from: two of 32 bytes and one of 16.
MasterKeys == {Fill(32, 1, 1), Fill(32, 2, 1)}
MasterKeyInputs == MasterKeys \cup {Fill(16, 0, 0)}

\* The plaintexts: none, four bytes, seventeen bytes.
Plaintexts == {<<>>, <<116, 101, 115, 116>>, Fill(17, 200, 3)}

\* The nonces the random source yields.
Nonces == {Fill(12, 9, 4), Fill(12, 250, 0)}

\* What a holder can make of an encrypted key: a byte of the ciphertext or
\* of the nonce changed, the ciphertext cut, the nonce replaced by one of
\* another length.
Altered(e) ==
    LET n == Len(e.Ciphertext)
    IN {[e EXCEPT !.Ciphertext[k] = Xor(@, 255)] : k \in {1, n}}
       \cup {[e EXCEPT !.Nonce[k] = Xor(@, 255)] : k \in {1, NonceSize}}
       \cup {[e EXCEPT !.Ciphertext = Front(@)], [e EXCEPT !.Ciphertext = <<>>],
              [e EXCEPT !.Nonce = <<1, 2, 3, 4>>], [e EXCEPT !.Nonce = <<>>],
              [e EXCEPT !.Nonce = @ \o <<0>>]}

\* An encryptor is built from a master key and encrypts a plaintext; the
\* result, as it is or altered, is given to an encryptor built from the same
\* or another master key.
InitAEAD ==
    /\ heap = <<>>
    /\ data = [x \in {} |-> 0]
    /\ saves = 0
    /\ ncalls = 0
    /\ now = 0
    /\ cache = EmptyMap
    /\ active = EmptyMap
    /\ mu = [writer |-> NoThread, readers |-> {}]
    /\ builtWith = [active |-> EmptyMap, listed |-> {}]
    /\ \E key \in MasterKeyInputs, p \in Plaintexts :
          th = [t \in Threads |->
                  IF t = "g1"
                  THEN [IdleTh EXCEPT !.pc = "aes_new", !.mkey = key, !.plain = p]
                  ELSE IdleTh]

CallDecrypt(t) ==
    /\ th[t].pc = "aes_enc_ret"
    /\ \E key \in MasterKeys, e \in {th[t].sealed} \cup Altered(th[t].sealed) :
          Set(t, [th[t] EXCEPT !.pc = "aes_dec", !.dkey = key, !.box = e])
    /\ UNCHANGED <<storeVars, envVars, cacheVars>>

NextAEAD ==
    \/ NewAESGCMEncryptor("g1")
    \/ AESGCMEncrypt("g1", Nonces)
    \/ CallDecrypt("g1")
    \/ AESGCMDecrypt("g1")

SpecAEAD == InitAEAD /\ [][NextAEAD]_vars

\* The TTLs of the policies a manager is constructed with: that of an empty
\* RotationConfig, and the positive ones.
TTLInputs == {0, 1}

\* A manager over an empty store, whose policy returns any of these TTLs,
\* rotates as time passes.
CallTTL(t) == \E alg \in SaveAlgs : CallRotate(t, alg, NoPre)

StepTTL(t) ==
    \/ RotatePolicyOf(t, TTLInputs)
    \/ RotateList(t)
    \/ RotatePrepare(t)
    \/ RotateStore(t)
    \/ RotateReturn(t)
    \/ ReloadList(t)
    \/ ReloadLoop(t)
    \/ ReloadSwapCache(t)
    \/ ReloadSwapActive(t)
    \/ ReloadReturn(t)

NextTTL == Tick \/ CallTTL("g1") \/ StepTTL("g1")

SpecTTL == Init /\ [][NextTTL]_vars

\* The instant at which the manager below is constructed.
AutoStart == 1

\* The manager is constructed at AutoStart over a store that holds at most
\* one record of each of two algorithms, active, expired an instant before
\* or expiring an instant after; it reloads and rotates what has expired as
\* time passes.
InitAuto == Boot(<<AlgRS256, AlgES256>>, {TRUE}, {AutoStart - 1, AutoStart + 1}, AutoStart)

CallAuto(t, pre) ==
    \/ CallReloadCache(t, pre)
    \/ CallRotateExpired(t, pre)

NextAuto == Tick \/ CallAuto("g1", Pre) \/ StepExpired("g1")

SpecAuto == InitAuto /\ [][NextAuto]_vars

\* The numbers the codec is tried on: zero, one byte, 31, 32 and 33 bytes,
\* with the top bit clear and set.
Magnitudes ==
    {<<>>, <<1>>, <<128>>, Fill(31, 1, 7), Fill(32, 1, 7), Fill(32, 128, 0),
     Fill(32, 255, 255), Fill(33, 1, 0), Fill(33, 128, 7)}

\* Encodings of a SEQUENCE{R, S} with a negative R: -1, and -2^255.
NegativeDER ==
    {<<48, 6, 2, 1, 255, 2, 1, 1>>,
     <<48, 2 + 32 + 3>> \o (<<2, 32>> \o Fill(32, 128, 0)) \o <<2, 1, 1>>}

\* The DER encodings of SEQUENCE{R, S}: of the numbers above, and those
\* with a negative R.
WellFormedDER ==
    {asn1Marshal(R, S) : R \in Magnitudes, S \in Magnitudes} \cup NegativeDER

\* An encoding to make other inputs from, and its SEQUENCE's content.
BaseDER == asn1Marshal(<<1>>, Fill(32, 255, 255))
BaseBody == SubSeq(BaseDER, 3, Len(BaseDER))

\* The encoding with something added: a byte after the SEQUENCE, a third
\* element (a NULL) in the SEQUENCE.
PaddedDER ==
    {BaseDER \o <<0>>, <<48, Len(BaseBody) + 2>> \o BaseBody \o <<5, 0>>}

\* The encoding damaged: cut short, with another tag, with a length that
\* is too long, indefinite or not minimal, with an INTEGER that is missing,
\* empty, not minimal or of another type; and the bytes FF 00 01, and no
\* bytes.
BrokenDER ==
    LET one == derInteger(<<1>>)
    IN {<<>>, <<255, 0, 1>>, <<48>>,
        Front(BaseDER),
        [BaseDER EXCEPT ![1] = 49],
        [BaseDER EXCEPT ![2] = @ + 1],
        <<48, 128>> \o BaseBody,
        <<48, 129, Len(BaseBody)>> \o BaseBody,
        <<48, Len(one)>> \o one,
        <<48, 2 + Len(one)>> \o <<2, 0>> \o one,
        <<48, 4 + Len(one)>> \o <<2, 2, 0, 1>> \o one,
        <<48, 3 + Len(one)>> \o <<4, 1, 1>> \o one}

\* DERToRawECDSA is applied to one input.
InitCodec ==
    /\ heap = <<>>
    /\ data = [x \in {} |-> 0]
    /\ saves = 0
    /\ ncalls = 0
    /\ now = 0
    /\ cache = EmptyMap
    /\ active = EmptyMap
    /\ mu = [writer |-> NoThread, readers |-> {}]
    /\ builtWith = [active |-> EmptyMap, listed |-> {}]
    /\ \E der \in WellFormedDER \cup PaddedDER \cup BrokenDER :
          th = [t \in Threads |->
                  IF t = "g1"
                  THEN [IdleTh EXCEPT !.pc = "cv_call", !.op = "DERToRawECDSA", !.der = der]
                  ELSE IdleTh]

NextCodec == ConvertDER("g1")

SpecCodec == InitCodec /\ [][NextCodec]_vars

\* Two goroutines make one call each at any interleaving of their steps:
\* one calls any method, the other one that takes the write lock
\* (ReloadCache), one that takes the read lock (JWKS) or one that takes
\* both in turn (a Sign whose lookup misses); the manager was constructed over a store that was empty or
\* held an active RS256 record that has expired by now. A goroutine that
\* can take a step eventually takes one (the Go scheduler runs every
\* runnable goroutine).
InitLive == Boot(<<AlgRS256>>, {TRUE}, {1}, MaxTime)

CallLive(t) ==
    /\ th[t].pc = "idle"
    /\ \/ CallReloadCache(t, NoPre)
       \/ CallRotate(t, AlgRS256, NoPre)
       \/ \E alg \in SaveAlgs, p \in Payloads : CallSign(t, alg, p, NoPre)
       \/ \E a \in 1..Len(heap), p \in Payloads :
             CallVerify(t, heap[a].KID, <<heap[a].KID, p>>, SigOf(a, p), NoPre)
       \/ CallJWKS(t, NoPre)
       \/ CallRotateExpired(t, NoPre)
       \/ CallInitKeys(t, <<AlgRS256, AlgES256>>, NoPre)

StepLive(t) ==
    \/ Step(t)
    \/ InitKeysRLock(t)
    \/ InitKeysRead(t)
    \/ RotateExpiredRLock(t)
    \/ RotateExpiredSnapshot(t)
    \/ RotateExpiredLoop(t)

CallOther(t) ==
    /\ th[t].pc = "idle"
    /\ \/ CallReloadCache(t, NoPre)
       \/ CallJWKS(t, NoPre)
       \/ \E p \in Payloads : CallSign(t, AlgES256, p, NoPre)

NextLive == CallLive("g1") \/ CallOther("g2") \/ (\E t \in Threads : StepLive(t))

SpecLive == InitLive /\ [][NextLive]_vars /\ \A t \in Threads : WF_vars(StepLive(t))

\* ------------------------------------------------------------ properties
Finished(t, op) == th[t].pc = "done" /\ th[t].op = op

\* The stored records of alg that were active when t's call began.
PreActive(t, alg) == {a \in th[t].pre.act : heap[a].Alg = alg}

\* C1: a Rotate(alg) that returns success, begun with at most one active
\* record of alg in storage and with no one else writing records of alg
\* meanwhile, leaves exactly one active record of alg in storage, the one it
\* created, and the record that was active before is inactive.
C1_RotateLeavesOneActive ==
    \A t \in Threads :
        LET r == th[t] IN
        (/\ Finished(t, "Rotate") /\ r.err = "nil"
         /\ r.alg \notin r.raced
         /\ Cardinality(PreActive(t, r.alg)) <= 1)
        => /\ r.newKey.KID \in DOMAIN data
           /\ heap[data[r.newKey.KID]] = r.newKey
           /\ r.newKey.IsActive /\ r.newKey.Alg = r.alg
           /\ ActiveAddrs(r.alg) = {data[r.newKey.KID]}
           /\ data[r.newKey.KID] \notin r.pre.act
           /\ \A a \in PreActive(t, r.alg) : ~heap[a].IsActive

C1_Witness ==
    \E t \in Threads :
        /\ Finished(t, "Rotate") /\ th[t].err = "nil"
        /\ th[t].alg \notin th[t].raced
        /\ Cardinality(PreActive(t, th[t].alg)) = 1

\* C2: a ReloadCache that returns an error (store.List failed, or a record
\* failed to decrypt or parse) has written neither index: cache and active
\* are what they were when the call began.
C2_FailedReloadKeepsCache ==
    \A t \in Threads :
        (Finished(t, "ReloadCache") /\ th[t].err # "nil")
        => /\ cache = th[t].pre.cache
           /\ active = th[t].pre.active
           /\ th[t].calls.write = 0

\* a failed reload after some records were processed, with an active key of
\* another algorithm than the failing record's still cached
C2_Witness ==
    \E t \in Threads :
        /\ Finished(t, "ReloadCache")
        /\ th[t].err \in {"decrypt key", "parse key"}
        /\ \E alg \in DOMAIN active, k \in DOMAIN data :
              /\ k \notin DOMAIN cache
              /\ heap[data[k]].Alg # alg
              /\ heap[data[k]].EncryptedKey.Ciphertext = Garbage

\* C3: after a successful ReloadCache over storage that nobody wrote since
\* the reload listed it and that holds at most one active record per
\* algorithm, cache has exactly the stored ids, each referring to its
\* record, and active has an entry exactly for the algorithms with an active
\* stored record, referring to that record.
C3_ReloadBuildsIndices ==
    \A t \in Threads :
        (/\ Finished(t, "ReloadCache") /\ th[t].err = "nil"
         /\ th[t].dirty = {}
         /\ \A alg \in SupportedAlgs : Cardinality(ActiveAddrs(alg)) <= 1)
        => /\ DOMAIN cache = DOMAIN data
           /\ \A k \in DOMAIN data :
                 /\ cache[k].key = data[k]
                 /\ marshalPKCS8(cache[k].priv).val = heap[data[k]].EncryptedKey.Ciphertext
           /\ DOMAIN active = {alg \in SupportedAlgs : ActiveAddrs(alg) # {}}
           /\ \A alg \in DOMAIN active :
                 /\ ActiveAddrs(alg) = {active[alg].key}
                 /\ active[alg] = cache[heap[active[alg].key].KID]

C3_Witness ==
    \E t \in Threads :
        /\ Finished(t, "ReloadCache") /\ th[t].err = "nil"
        /\ th[t].dirty = {}
        /\ \E k1 \in DOMAIN data, k2 \in DOMAIN data :
              /\ heap[data[k1]].IsActive /\ ~heap[data[k2]].IsActive
              /\ heap[data[k1]].Alg = heap[data[k2]].Alg
        /\ \A alg \in SupportedAlgs : Cardinality(ActiveAddrs(alg)) <= 1

BothRotated(t, u) ==
    /\ t # u
    /\ Finished(t, "Rotate") /\ Finished(u, "Rotate")
    /\ th[t].err = "nil" /\ th[u].err = "nil"
    /\ th[t].alg = th[u].alg
    /\ u \in th[t].over

\* C5 as claimed: once both have finished, storage holds at most one active
\* record of the algorithm and active agrees with it.
C5_Original ==
    \A t \in Threads, u \in Threads :
        BothRotated(t, u)
        => /\ Cardinality(ActiveAddrs(th[t].alg)) <= 1
           /\ \A a \in ActiveAddrs(th[t].alg) :
                 MapGet(active, th[t].alg).key = a

\* The map value a lookup would have read when its call began.
PreLookup(r) ==
    IF r.op = "Sign" THEN MapGet(r.pre.active, r.alg) ELSE MapGet(r.pre.cache, r.kid)

ReloadFailed(r) == r.calls.reload = 1 /\ r.rlErr \notin {"", "nil"}

\* C6: a Sign or Verify whose lookup missed and whose reload failed, with no
\* other call running meanwhile, returns "no active key" (Sign) or "key not
\* found" (Verify), never the reload's error, and the two maps are what they
\* were when the call began.
C6_MissReloadFailsNotFound ==
    \A t \in Threads :
        LET r == th[t] IN
        (/\ r.pc = "done" /\ r.op \in {"Sign", "Verify"}
         /\ ReloadFailed(r) /\ r.over = {})
        => /\ r.err = IF r.op = "Sign" THEN "no active key" ELSE "key not found"
           /\ r.err # r.rlErr
           /\ cache = r.pre.cache /\ active = r.pre.active

\* a Verify of a stored id that is not cached, whose reload failed
C6_Witness ==
    \E t \in Threads :
        /\ Finished(t, "Verify") /\ ReloadFailed(th[t])
        /\ th[t].kid \in DOMAIN data
        /\ th[t].err = "key not found"

\* C7: with no other call running meanwhile, a lookup that hits reads the
\* map once and makes no storage call; a
\* lookup that misses runs one ReloadCache (one store.List), reads the map
\* once more and returns what is then there; when that reload succeeds and
\* the id was stored before it listed, the record's entry is what Verify
\* gets.
C7_LookupReloadsOnceOnMiss ==
    \A t \in Threads :
        LET r == th[t] IN
        (r.pc = "done" /\ r.op \in {"Sign", "Verify"} /\ r.over = {})
        => /\ PreLookup(r) # NilCK
              => /\ r.calls.read = 1 /\ r.calls.reload = 0 /\ r.calls.list = 0
                 /\ r.ck = PreLookup(r)
           /\ PreLookup(r) = NilCK
              => /\ r.calls.read = 2 /\ r.calls.reload = 1 /\ r.calls.list = 1
                 /\ r.ck = IF r.op = "Sign" THEN MapGet(active, r.alg)
                           ELSE MapGet(cache, r.kid)
           /\ (/\ r.op = "Verify" /\ PreLookup(r) = NilCK
               /\ r.rlErr = "nil" /\ r.dirty = {} /\ r.kid \in DOMAIN data)
              => /\ r.ck # NilCK
                 /\ r.ck.key = data[r.kid]
                 /\ r.err # "key not found"

\* a Verify that missed, reloaded and then found the stored record
C7_Witness ==
    \E t \in Threads :
        /\ Finished(t, "Verify") /\ PreLookup(th[t]) = NilCK
        /\ th[t].rlErr = "nil" /\ th[t].dirty = {}
        /\ th[t].kid \in DOMAIN data
        /\ th[t].ck.key = data[th[t].kid]
        /\ th[t].calls.list = 1

\* Rotate failed before its reload: at the policy, store.List, key
\* generation, serialization, encryption or store.Rotate.
FailedBeforeReload(r) ==
    /\ r.err # "nil"
    /\ r.calls.storeRotate = 0 \/ r.err = "rotate failed"

\* C8: a Rotate that fails at the policy, store.List, key generation,
\* serialization, encryption or store.Rotate returns without running
\* ReloadCache, and the two maps are what they were when the call began.
C8_EarlyFailureNoReload ==
    \A t \in Threads :
        LET r == th[t] IN
        (Finished(t, "Rotate") /\ FailedBeforeReload(r))
        => /\ r.calls.reload = 0 /\ r.calls.write = 0
           /\ r.err \in {"policy error", "list failed", "unknown alg",
                         "marshal pkcs8", "encrypt failed", "rotate failed"}
           /\ cache = r.pre.cache /\ active = r.pre.active

\* a Rotate whose store.Rotate failed, with the algorithm's active key cached
C8_Witness ==
    \E t \in Threads :
        /\ Finished(t, "Rotate") /\ th[t].err = "rotate failed"
        /\ th[t].alg \in DOMAIN active
        /\ th[t].oldKey # NilKey

\* C9: a Rotate whose policy fails returns the policy's error having called
\* neither store.List nor the encryptor nor store.Rotate and having made no
\* key; the maps are what they were when the call began, and so is storage
\* unless someone else wrote to it.
C9_PolicyErrorNoSideEffects ==
    \A t \in Threads :
        LET r == th[t] IN
        (Finished(t, "Rotate") /\ r.err = "policy error")
        => /\ r.calls.policy = 1
           /\ r.calls.list = 0 /\ r.calls.encrypt = 0 /\ r.calls.storeRotate = 0
           /\ r.calls.generate = 0 /\ r.calls.reload = 0
           /\ r.newKey = NilKey
           /\ cache = r.pre.cache /\ active = r.pre.active
           /\ r.raced = {}
              => /\ data = r.pre.data
                 /\ {a \in StoreAddrs : heap[a].IsActive} = r.pre.act

\* a Rotate refused by the policy while storage holds an active record of the
\* algorithm
C9_Witness ==
    \E t \in Threads :
        /\ Finished(t, "Rotate") /\ th[t].err = "policy error"
        /\ th[t].raced = {}
        /\ ActiveAddrs(th[t].alg) # {}

\* store.Rotate succeeded and the reload after it failed.
StoredThenReloadFailed(r) ==
    /\ r.calls.storeRotate = 1
    /\ r.err \notin {"nil", "rotate failed"}

\* C10: a Rotate whose store.Rotate succeeded and whose reload failed returns
\* the reload's error; unless someone else wrote records of the algorithm,
\* storage holds the new record, active, and the old one, inactive; the two
\* maps are what they were when the call began, so active[alg] is still the
\* entry of the key that was current before the rotation.
C10_ReloadFailureLeavesStaleCache ==
    \A t \in Threads :
        LET r == th[t] IN
        (Finished(t, "Rotate") /\ StoredThenReloadFailed(r))
        => /\ r.err = r.rlErr /\ r.calls.reload = 1
           /\ cache = r.pre.cache /\ active = r.pre.active
           /\ r.alg \notin r.raced
              => /\ r.newKey.KID \in DOMAIN data
                 /\ heap[data[r.newKey.KID]].IsActive
                 /\ r.newKey.KID \notin DOMAIN cache
                 /\ r.oldKey # NilKey
                    => /\ r.oldKey.KID \in DOMAIN data
                       /\ ~heap[data[r.oldKey.KID]].IsActive
                 /\ MapGet(active, r.alg).key # data[r.newKey.KID]

\* the cached active key was rotated out in storage and the reload failed
C10_Witness ==
    \E t \in Threads :
        /\ Finished(t, "Rotate") /\ StoredThenReloadFailed(th[t])
        /\ th[t].alg \notin th[t].raced
        /\ th[t].oldKey # NilKey
        /\ th[t].alg \in DOMAIN active
        /\ active[th[t].alg].key = data[th[t].oldKey.KID]

\* The record a held signature was made under is still the one stored under
\* its id.
HeldRecordStored(r) ==
    /\ r.held # NoHeld
    /\ r.held.kid \in DOMAIN data
    /\ data[r.held.kid] = r.held.key

\* C11: a Sign that succeeds resolved the active key of its algorithm, a
\* supported one, gave build that key's id and returns that key's signature
\* over the bytes build made (in raw form for ES256); a Verify under that id,
\* with the record still stored, succeeds exactly when it is given those
\* bytes and that signature.
C11_SignVerifyRoundTrip ==
    \A t \in Threads :
        LET r == th[t] IN
        /\ (Finished(t, "Sign") /\ r.err = "nil")
           => /\ r.alg \in SupportedAlgs
              /\ r.ck # NilCK /\ heap[r.ck.key].Alg = r.alg
              /\ r.kid = heap[r.ck.key].KID
              /\ r.out.by = r.ck.pub
              /\ r.out.over = Digest(signingOptions(r.alg).hash, <<r.kid, r.payload>>)
              /\ r.out.enc = CASE r.alg = AlgRS256 -> "RSA"
                               [] r.alg = AlgES256 -> "raw"
                               [] OTHER -> "Ed25519"
        /\ (Finished(t, "Verify") /\ HeldRecordStored(r))
           => /\ r.ck.key = r.held.key
              /\ r.err = "nil" <=> (r.payload = r.held.bytes /\ r.sig = r.held.sig)

\* an ES256 signature that Sign returned has been verified
C11_Witness ==
    \E t \in Threads :
        /\ Finished(t, "Verify") /\ HeldRecordStored(th[t])
        /\ heap[th[t].held.key].Alg = AlgES256
        /\ th[t].payload = th[t].held.bytes /\ th[t].sig = th[t].held.sig
        /\ th[t].err = "nil"

\* C12: a Verify of a signature that Sign returned, under the id Sign used,
\* succeeds after the key's record has been rotated out: the record is still
\* stored, inactive, and the cache has its entry. No successful reload ever
\* leaves a stored record without an entry.
C12_RotatedOutKeyVerifies ==
    \A t \in Threads :
        LET r == th[t] IN
        (/\ Finished(t, "Verify") /\ HeldRecordStored(r)
         /\ r.payload = r.held.bytes /\ r.sig = r.held.sig
         /\ ~heap[r.held.key].IsActive)
        => /\ r.err = "nil"
           /\ r.held.kid \in DOMAIN cache
           /\ cache[r.held.kid].key = r.held.key
           /\ r.calls.reload = 0

\* the signing key was rotated out by a Rotate that succeeded, reload
\* included, and the signature then verified
C12_Witness ==
    \E t \in Threads, u \in Threads :
        /\ Finished(t, "Verify") /\ HeldRecordStored(th[t])
        /\ th[t].payload = th[t].held.bytes /\ th[t].sig = th[t].held.sig
        /\ th[t].err = "nil"
        /\ ~heap[th[t].held.key].IsActive
        /\ Finished(u, "Rotate") /\ th[u].err = "nil"
        /\ th[u].oldKey.KID = th[t].held.kid
        /\ MapGet(active, th[u].alg).key = data[th[u].newKey.KID]

\* Every entry of active referred to a stored, active record when the call
\* began.
CacheInStep(r) ==
    \A alg \in DOMAIN r.pre.active : r.pre.active[alg].key \in r.pre.act

\* C13 as claimed: InitKeys calls Rotate once for each algorithm of algs that
\* had no entry in active, and not for one that had.
C13_Original ==
    \A t \in Threads :
        LET r == th[t] IN
        Finished(t, "InitKeys")
        => \A alg \in Range(r.algs) :
              Count(r.rotated, alg) = IF alg \in DOMAIN r.pre.active THEN 0 ELSE 1

\* C13: InitKeys examines algs in order; it calls Rotate for an algorithm
\* exactly when active has no entry for it at the moment it is examined, at
\* most once per algorithm, and stops at the first Rotate that fails. The
\* first algorithm is rotated exactly when active had no entry for it at the
\* start; an algorithm whose entry referred to a stored active record at the
\* start is not rotated and its record stays active.
C13_InitKeysRotatesMissingInOrder ==
    \A t \in Threads :
        LET r == th[t]
            m == Len(r.seen)
            n == Len(r.outs)
        IN
        Finished(t, "InitKeys")
        => /\ m <= Len(r.algs) /\ n = Len(r.rotated)
           /\ \A alg \in Range(r.algs) :
                 /\ Count(r.rotated, alg)
                      = Cardinality({k \in 1..m : r.algs[k] = alg /\ ~r.seen[k]})
                 /\ Count(r.rotated, alg) <= 1
           /\ \A k \in 1..n : r.outs[k].alg = r.rotated[k]
           /\ \A k \in 1..(n - 1) : r.outs[k].err = "nil"
           /\ r.err = "nil" <=> (m = Len(r.algs) /\ \A k \in 1..n : r.outs[k].err = "nil")
           /\ r.err # "nil"
              => /\ m >= 1 /\ n >= 1
                 /\ ~r.seen[m] /\ r.outs[n].alg = r.algs[m] /\ r.outs[n].err # "nil"
           /\ m >= 1 => (r.seen[1] <=> r.algs[1] \in DOMAIN r.pre.active)
           /\ (CacheInStep(r) /\ r.raced = {})
              => \A alg \in Range(r.algs) \cap DOMAIN r.pre.active :
                    /\ Count(r.rotated, alg) = 0
                    /\ heap[r.pre.active[alg].key].IsActive

\* InitKeys([RS256, ES256]) with only RS256 active has rotated ES256 alone
C13_Witness ==
    \E t \in Threads :
        /\ Finished(t, "InitKeys") /\ th[t].err = "nil"
        /\ th[t].algs = <<AlgRS256, AlgES256>>
        /\ DOMAIN th[t].pre.active = {AlgRS256}
        /\ CacheInStep(th[t])
        /\ th[t].rotated = <<AlgES256>>

\* C14: after an InitKeys that returns nil, every algorithm of algs has an
\* entry in active and an active record in storage, when the store is
\* written by the manager alone; when it is also written from outside, the
\* same holds, and the entry's record is an active stored one, provided the
\* entries of active referred to stored active records at the start and no
\* outside write came after.
C14_InitKeysLeavesActiveKeys ==
    \A t \in Threads :
        LET r == th[t] IN
        (Finished(t, "InitKeys") /\ r.err = "nil")
        => /\ saves = 0
              => \A alg \in Range(r.algs) :
                    alg \in DOMAIN active /\ ActiveAddrs(alg) # {}
           /\ (CacheInStep(r) /\ r.raced = {})
              => \A alg \in Range(r.algs) :
                    /\ alg \in DOMAIN active
                    /\ active[alg].key \in ActiveAddrs(alg)

\* InitKeys over two algorithms, neither active, has rotated both
C14_Witness ==
    \E t \in Threads :
        /\ Finished(t, "InitKeys") /\ th[t].err = "nil"
        /\ th[t].algs = <<AlgRS256, AlgES256>>
        /\ th[t].pre.active = EmptyMap
        /\ th[t].rotated = <<AlgRS256, AlgES256>>
        /\ DOMAIN active = {AlgRS256, AlgES256}

\* The algorithms whose entry in the snapshot m refers to a record with an
\* expiry earlier than the instant at.
ExpiredIn(m, at) ==
    {alg \in DOMAIN m :
        /\ heap[m[alg].key].ExpiresAt # NoExpiry
        /\ heap[m[alg].key].ExpiresAt + 1 <= at}

\* C15: RotateExpired visits every entry of its snapshot of active once and
\* calls Rotate for exactly the algorithms whose entry's record expires
\* strictly before the time read after the snapshot; an entry without an
\* expiry, or whose expiry equals or follows that time, is not rotated, and
\* no algorithm is rotated twice in a call.
C15_RotatesExactlyExpired ==
    \A t \in Threads :
        LET r == th[t] IN
        Finished(t, "RotateExpired")
        => /\ r.snap = r.pre.active
           /\ r.tnow <= now
           /\ Range(r.algs) = DOMAIN r.snap /\ Len(r.algs) = Cardinality(DOMAIN r.snap)
           /\ Range(r.rotated) = ExpiredIn(r.snap, r.tnow)
           /\ \A alg \in DOMAIN r.snap :
                 /\ Count(r.rotated, alg) <= 1
                 /\ (\/ heap[r.snap[alg].key].ExpiresAt = NoExpiry
                     \/ heap[r.snap[alg].key].ExpiresAt >= r.tnow)
                    => Count(r.rotated, alg) = 0

\* of two active keys one expired an instant ago and is rotated, the other
\* expires at the instant of the call and is not
C15_Witness ==
    \E t \in Threads :
        /\ Finished(t, "RotateExpired")
        /\ DOMAIN th[t].snap = {AlgRS256, AlgES256}
        /\ \E alg \in DOMAIN th[t].snap :
              /\ th[t].rotated = <<alg>>
              /\ heap[th[t].snap[alg].key].ExpiresAt = th[t].tnow - 1
              /\ \E other \in DOMAIN th[t].snap \ {alg} :
                    heap[th[t].snap[other].key].ExpiresAt = th[t].tnow

\* C16: RotateExpired calls Rotate for every expired algorithm of its
\* snapshot whether or not an earlier Rotate of the call failed; the error
\* it returns is built from the failures of all these calls, and it returns
\* nil exactly when none of them failed.
C16_CollectsAllRotationErrors ==
    \A t \in Threads :
        LET r == th[t] IN
        Finished(t, "RotateExpired")
        => /\ Len(r.outs) = Cardinality(ExpiredIn(r.snap, r.tnow))
           /\ {r.outs[k].alg : k \in 1..Len(r.outs)} = ExpiredIn(r.snap, r.tnow)
           /\ r.errs = SelectSeq(r.outs, LAMBDA o : o.err # "nil")
           /\ r.err = "nil" <=> \A k \in 1..Len(r.outs) : r.outs[k].err = "nil"
           /\ r.err # "nil" => r.err = "rotation errors" /\ r.errs # <<>>

\* the first of two rotations fails, the second is made and succeeds
C16_Witness ==
    \E t \in Threads :
        /\ Finished(t, "RotateExpired")
        /\ Len(th[t].outs) = 2
        /\ th[t].outs[1].err # "nil"
        /\ th[t].outs[2].err = "nil"
        /\ Len(th[t].errs) = 1
        /\ th[t].err = "rotation errors"

\* The positions at which a goroutine holds the read lock of mu: between an
\* RLock and the RUnlock that follows the map read.
ReadLockPCs == {"lk_read1", "lk_read2", "jw_build", "ik_read", "re_snap"}

\* A running goroutine that waits for mu.
Blocked(t) ==
    \/ th[t].pc \in {"lk_rlock1", "lk_rlock2", "jw_rlock", "re_rlock"} /\ mu.writer # NoThread
    \/ th[t].pc = "ik_loop" /\ th[t].j <= Len(th[t].algs) /\ mu.writer # NoThread
    \/ th[t].pc = "rl_swap" /\ (mu.writer # NoThread \/ mu.readers # {})

\* C17: a goroutine holds the read lock only around a map read, never while
\* it runs ReloadCache; whenever calls are in progress one of them can take
\* a step; and every call of Sign, Verify, JWKS, Rotate, RotateExpired,
\* InitKeys or ReloadCache that has begun returns.
C17_NoDeadlockCallsComplete ==
    /\ [](\A t \in Threads : t \in mu.readers => th[t].pc \in ReadLockPCs)
    /\ []((\E t \in Threads : Running(t))
            => \E t \in Threads : Running(t) /\ ~Blocked(t))
    /\ \A t \in Threads : Running(t) ~> ~Running(t)

\* the reload that a lookup's miss started waits for the write lock while
\* the other goroutine holds the read lock
C17_Witness ==
    \E t \in Threads, u \in Threads :
        /\ t # u
        /\ th[t].op \in {"Sign", "Verify"} /\ th[t].pc = "rl_swap"
        /\ t \notin mu.readers
        /\ u \in mu.readers

\* C18 as claimed: a step that is not a reload's swap of the maps leaves
\* every record held by a cached handle as it was, its IsActive included.
C18_Original ==
    [][(cache' = cache /\ active' = active)
         => \A k \in DOMAIN cache : heap'[cache[k].key] = heap[cache[k].key]]_vars

\* The positions of the document's entries that carry the id kid.
EntriesOf(doc, kid) == {i \in 1..Len(doc) : doc[i]["kid"] = kid}

\* C19: the document JWKS returns has exactly one entry for every key of
\* cache, inactive ones included, and no other entry; the entry carries the
\* record's id as kid, the record's algorithm as alg, and use = "sig".
C19_OneEntryPerCachedKey ==
    \A t \in Threads :
        LET r == th[t] IN
        Finished(t, "JWKS")
        => /\ r.err = "nil"
           /\ Len(r.jwks) = Cardinality(DOMAIN cache)
           /\ \A kid \in DOMAIN cache :
                 /\ Cardinality(EntriesOf(r.jwks, kid)) = 1
                 /\ \A i \in EntriesOf(r.jwks, kid) :
                       /\ {"kid", "alg", "use"} \subseteq DOMAIN r.jwks[i]
                       /\ r.jwks[i]["kid"] = heap[cache[kid].key].KID
                       /\ r.jwks[i]["alg"] = heap[cache[kid].key].Alg
                       /\ r.jwks[i]["use"] = "sig"

\* a cache with an active and an inactive key is exported
C19_Witness ==
    \E t \in Threads :
        /\ Finished(t, "JWKS")
        /\ Len(th[t].jwks) >= 2
        /\ \E k1 \in DOMAIN cache, k2 \in DOMAIN cache :
              heap[cache[k1].key].IsActive /\ ~heap[cache[k2].key].IsActive

PaddedPair(R, S) ==
    [k \in 1..64 |->
        IF k <= 32 THEN (IF k <= 32 - Len(R) THEN 0 ELSE R[k - (32 - Len(R))])
        ELSE (IF k - 32 <= 32 - Len(S) THEN 0 ELSE S[k - 32 - (32 - Len(S))])]

\* C22 as claimed: on the encoding of a SEQUENCE{R, S} the conversion gives
\* the 64 padded bytes or the too-large error, and on every other input it
\* fails with the decode error.
C22_Original ==
    \A t \in Threads :
        LET r == th[t] IN
        Finished(t, "DERToRawECDSA")
        => /\ \A R \in Magnitudes, S \in Magnitudes :
                 r.der = asn1Marshal(R, S)
                 => IF Len(R) <= 32 /\ Len(S) <= 32
                    THEN r.err = "nil" /\ r.raw = PaddedPair(R, S)
                    ELSE r.err = "R/S too large"
           /\ r.der \notin WellFormedDER => r.err = "asn1 unmarshal"

\* C22 for the inputs it holds on: on the DER encoding of SEQUENCE{R, S}
\* with non-negative R and S of at most 32 bytes the conversion returns 64
\* bytes, R's bytes after zeros up to 32 and then S's likewise; with R or S
\* of more than 32 bytes it fails with the too-large error and returns no
\* bytes; on an input that does not start with a SEQUENCE of two INTEGERs
\* it fails with the decode error and returns no bytes. A negative number
\* is converted as its absolute value.
C22_RawIsPaddedRThenS ==
    \A t \in Threads :
        LET r == th[t] IN
        Finished(t, "DERToRawECDSA")
        => /\ \A R \in Magnitudes, S \in Magnitudes :
                 r.der = asn1Marshal(R, S)
                 => IF Len(R) <= 32 /\ Len(S) <= 32
                    THEN r.err = "nil" /\ Len(r.raw) = 64 /\ r.raw = PaddedPair(R, S)
                    ELSE r.err = "R/S too large" /\ r.raw = <<>>
           /\ r.der \in BrokenDER => r.err = "asn1 unmarshal" /\ r.raw = <<>>
           /\ r.der = <<48, 6, 2, 1, 255, 2, 1, 1>>
              => r.err = "nil" /\ r.raw = PaddedPair(<<1>>, <<1>>)

\* a 31-byte R and a 32-byte S with the top bit set have been converted
C22_Witness ==
    \E t \in Threads :
        /\ Finished(t, "DERToRawECDSA")
        /\ th[t].der = asn1Marshal(Fill(31, 1, 7), Fill(32, 255, 255))
        /\ th[t].err = "nil"
        /\ th[t].raw[1] = 0 /\ th[t].raw[2] = 1 /\ th[t].raw[33] = 255
\* C21: a Sign for ES256 that succeeds returns 64 bytes, the signer's R
\* and then S, each left-padded with zeros to 32 bytes, and these are not
\* the signer's DER bytes; a Sign for ES256 whose conversion fails, as
\* with a key whose numbers exceed 32 bytes, returns the conversion error and
\* no bytes.
C21_SignES256ReturnsRaw ==
    \A t \in Threads :
        LET r == th[t] IN
        (Finished(t, "Sign") /\ r.alg = AlgES256)
        => /\ r.err = "nil"
              => /\ r.out.enc = "raw"
                 /\ Len(r.out.bytes) = 2 * RawSize
                 /\ \E rs \in NumbersOf(r.ck.priv) :
                       /\ r.out.bytes = PaddedPair(rs[1], rs[2])
                       /\ r.out.bytes # asn1Marshal(rs[1], rs[2])
           /\ r.err # "nil" => r.out = NoSig
           /\ (r.ck # NilCK /\ r.ck.priv.curve = "P-384")
              => r.err \in {"build", "ecdsa convert"}

\* one Sign for ES256 has returned a raw signature whose R was padded,
\* another has failed on the conversion
C21_Witness ==
    \E t, u \in Threads :
        /\ Finished(t, "Sign") /\ th[t].alg = AlgES256 /\ th[t].err = "nil"
        /\ th[t].out.bytes[1] = 0
        /\ Finished(u, "Sign") /\ th[u].alg = AlgES256 /\ th[u].err = "ecdsa convert"
\* The errors that say an algorithm is not supported, in the wordings of
\* signingOptions, generatePrivateKey and verifySignature.
UnsupportedErrors == {"unsupported algorithm", "unknown alg", "unsupported alg"}

\* C23 as claimed: a Sign, Rotate or InitKeys given an identifier outside
\* the enumeration, and a Verify under a record with one, fails with the
\* unsupported-algorithm error.
C23_Original ==
    \A t \in Threads :
        LET r == th[t] IN
        /\ (Finished(t, "Sign") /\ r.alg \notin SupportedAlgs) => r.err \in UnsupportedErrors
        /\ (Finished(t, "Rotate") /\ r.alg \notin SupportedAlgs) => r.err \in UnsupportedErrors
        /\ (Finished(t, "InitKeys") /\ \E j \in 1..Len(r.algs) : r.algs[j] \notin SupportedAlgs)
           => /\ r.err = "failed to initialize key"
              /\ r.outs[Len(r.outs)].err \in UnsupportedErrors

\* C23 for what the code does: key generation, hash selection and signature
\* verification fail on an identifier outside the enumeration with their
\* unsupported-algorithm error; a Sign with one fails, with the not-found
\* error when no active key is cached under it and otherwise with the
\* builder's or the unsupported-algorithm error; a Rotate with one fails,
\* with the unsupported-algorithm error once the policy and the listing have
\* succeeded, and stores nothing; an InitKeys that reaches one with no active
\* key cached under it fails the same way; a Verify under a record with one
\* fails with the unsupported-algorithm error.
C23_UnsupportedAlgFails ==
    /\ ~generatePrivateKey(AlgBad, 1).ok
    /\ ~signingOptions(AlgBad).ok
    /\ \A p \in Payloads :
          verifySignature(AlgBad, Public(generatePrivateKey(AlgRS256, 1).val), p, NoSig)
             = "unsupported alg"
    /\ \A t \in Threads :
        LET r == th[t] IN
        /\ (Finished(t, "Sign") /\ r.alg \notin SupportedAlgs)
           => /\ r.out = NoSig
              /\ IF r.ck = NilCK THEN r.err = "no active key"
                 ELSE r.err \in {"build", "unsupported algorithm"}
        /\ (Finished(t, "Rotate") /\ r.alg \notin SupportedAlgs)
           => /\ r.err \in {"policy error", "list failed", "unknown alg"}
              /\ r.calls.storeRotate = 0
        /\ (Finished(t, "InitKeys") /\ r.rotated # <<>>
               /\ r.rotated[Len(r.rotated)] \notin SupportedAlgs)
           => /\ r.err = "failed to initialize key"
              /\ r.outs[Len(r.outs)].err \in {"policy error", "list failed", "unknown alg"}
        /\ (Finished(t, "Verify") /\ r.ck # NilCK /\ heap[r.ck.key].Alg \notin SupportedAlgs)
           => r.err = "unsupported alg"

\* a Sign with the identifier outside the enumeration has failed at the
\* hash selection: an active key was cached under it
C23_Witness ==
    \E t \in Threads :
        /\ Finished(t, "Sign") /\ th[t].alg = AlgBad
        /\ th[t].ck # NilCK /\ th[t].err = "unsupported algorithm"
\* C24: an encrypted key that is decrypted as it came from Encrypt, by an
\* encryptor built from the same 32-byte master key, yields the plaintext
\* that was encrypted and no error; this for the empty plaintext too.
C24_DecryptInvertsEncrypt ==
    \A t \in Threads :
        LET r == th[t] IN
        (Finished(t, "Decrypt") /\ r.box = r.sealed /\ r.dkey = r.mkey)
        => r.err = "nil" /\ r.opened = r.plain

\* seventeen bytes have come back from a ciphertext that differs from them
C24_Witness ==
    \E t \in Threads :
        /\ Finished(t, "Decrypt") /\ th[t].box = th[t].sealed /\ th[t].dkey = th[t].mkey
        /\ Len(th[t].plain) = 17 /\ th[t].opened = th[t].plain
        /\ SubSeq(th[t].sealed.Ciphertext, 1, 17) # th[t].plain

\* C25: Decrypt returns an error and no plaintext when the nonce's length
\* is not the scheme's nonce size (the nonce-size error), when the nonce or
\* the ciphertext is not what Encrypt returned, and when the encryptor was
\* built from another master key than the encrypting one (the decrypt
\* error).
C25_DecryptRejects ==
    \A t \in Threads :
        LET r == th[t] IN
        Finished(t, "Decrypt")
        => /\ Len(r.box.Nonce) # NonceSize
              => r.err = "invalid nonce size" /\ r.opened = <<>>
           /\ (Len(r.box.Nonce) = NonceSize /\ (r.box # r.sealed \/ r.dkey # r.mkey))
              => r.err = "decrypt" /\ r.opened = <<>>

\* a ciphertext with one byte changed has been rejected by the encryptor
\* that made it
C25_Witness ==
    \E t \in Threads :
        /\ Finished(t, "Decrypt") /\ th[t].dkey = th[t].mkey
        /\ th[t].box.Nonce = th[t].sealed.Nonce
        /\ Len(th[t].box.Ciphertext) = Len(th[t].sealed.Ciphertext)
        /\ th[t].box.Ciphertext # th[t].sealed.Ciphertext
        /\ th[t].plain # <<>>
        /\ th[t].err = "decrypt"
BuiltIn(t) == th[t].pc = "rot_prep" /\ th'[t].pc = "rot_store"
StoredIn(t) == th[t].pc = "rot_store" /\ th'[t].pc = "rl_list" /\ Len(heap') > Len(heap)

\* C27 as claimed: the record Rotate builds is active, created at the
\* instant of the rotation, expires that instant plus the TTL of this
\* rotation's policy call, and that is after the instant of its creation.
C27_Original ==
    [][\A t \in Threads :
          BuiltIn(t)
          => LET k == th'[t].newKey
             IN /\ k.IsActive
                /\ k.CreatedAt = now
                /\ k.ExpiresAt = k.CreatedAt + th[t].ttl
                /\ k.ExpiresAt > now]_vars

\* C27 without the strictness: the record Rotate builds is active, created
\* at the instant of the rotation and expires that instant plus the TTL of
\* this rotation's policy call, which is after its creation exactly when the
\* TTL is positive; the record is stored with these fields.
C27_ExpiresAtCreationPlusTTL ==
    [][\A t \in Threads :
          /\ BuiltIn(t)
             => LET k == th'[t].newKey
                IN /\ k.IsActive
                   /\ k.CreatedAt = now
                   /\ k.ExpiresAt = k.CreatedAt + th[t].ttl
                   /\ th[t].ttl \in TTLInputs
                   /\ (k.ExpiresAt > now) = (th[t].ttl > 0)
          /\ StoredIn(t)
             => LET k == heap'[Len(heap')]
                IN /\ k.IsActive = th[t].newKey.IsActive
                   /\ k.CreatedAt = th[t].newKey.CreatedAt
                   /\ k.ExpiresAt = th[t].newKey.ExpiresAt]_vars

\* a record created at instant 1 with a positive TTL is stored, active
C27_Witness ==
    \E a \in 1..Len(heap) :
        /\ heap[a].CreatedAt = 1 /\ heap[a].ExpiresAt = 2 /\ heap[a].IsActive
        /\ heap[a].KID \in DOMAIN data
\* The algorithms whose active key in m had expired before the manager was
\* constructed.
ExpiredAtStart(m) ==
    {alg \in DOMAIN m :
        /\ heap[m[alg].key].ExpiresAt # NoExpiry
        /\ heap[m[alg].key].ExpiresAt < AutoStart}

\* C28 as claimed: after a ReloadCache that was called while the active key
\* of an algorithm had expired, the active key of that algorithm is another
\* record.
C28_Original ==
    \A t \in Threads :
        LET r == th[t] IN
        (Finished(t, "ReloadCache") /\ r.err = "nil")
        => \A alg \in ExpiredAtStart(r.pre.active) :
              /\ alg \in DOMAIN active
              /\ active[alg].key # r.pre.active[alg].key

\* C28 for what the code does: a ReloadCache calls neither the policy nor
\* the key generator nor store.Rotate and leaves the stored records as they
\* were; the active keys after it are records that were active in storage
\* when it was called, expired or not.
C28_ReloadCacheDoesNotRotate ==
    \A t \in Threads :
        LET r == th[t] IN
        (Finished(t, "ReloadCache") /\ r.err = "nil")
        => /\ r.calls.policy = 0 /\ r.calls.generate = 0 /\ r.calls.storeRotate = 0
           /\ r.rotated = <<>>
           /\ data = r.pre.data
           /\ {a \in StoreAddrs : heap[a].IsActive} = r.pre.act
           /\ \A alg \in DOMAIN active : active[alg].key \in r.pre.act

\* a ReloadCache has succeeded and the active key that had expired before the
\* call is still the active key
C28_Witness ==
    \E t \in Threads :
        /\ Finished(t, "ReloadCache") /\ th[t].err = "nil"
        /\ \E alg \in ExpiredAtStart(th[t].pre.active) :
              /\ alg \in DOMAIN active
              /\ active[alg].key = th[t].pre.active[alg].key
              /\ Expired(heap[active[alg].key], now)
\* The positions in the list keys at which an active record of alg stands.
ActiveAt(keys, alg) ==
    {i \in 1..Len(keys) : heap[keys[i]].Alg = alg /\ heap[keys[i]].IsActive}

Last(S) == CHOOSE i \in S : \A j \in S : j <= i

\* C29: when ReloadCache has gone through the list, every listed record
\* has its entry in the new cache under its id, and the new active map's
\* entry of an algorithm is the record that stands last in the list among
\* the active ones of the algorithm, also when there are two; the only
\* errors a reload ends with are those of the listing, the decryption and
\* the parsing.
C29_LaterListedActiveWins ==
    \A t \in Threads :
        LET r == th[t] IN
        /\ (r.pc = "rl_swap" /\ r.op = "ReloadCache")
           => /\ \A i \in 1..Len(r.keys) :
                    /\ heap[r.keys[i]].KID \in DOMAIN r.newCache
                    /\ r.newCache[heap[r.keys[i]].KID].key = r.keys[i]
              /\ \A alg \in SupportedAlgs :
                    IF ActiveAt(r.keys, alg) = {} THEN alg \notin DOMAIN r.newActive
                    ELSE /\ alg \in DOMAIN r.newActive
                         /\ r.newActive[alg].key = r.keys[Last(ActiveAt(r.keys, alg))]
        /\ r.pc = "rl_ret"
           => r.rlErr \in {"nil", "list failed", "decrypt key", "parse key"}

\* a ReloadCache has gone through a list with two active records of one
\* algorithm, the record created first standing last
C29_Witness ==
    \E t \in Threads, alg \in SupportedAlgs :
        /\ th[t].pc = "rl_swap" /\ th[t].op = "ReloadCache"
        /\ Cardinality(ActiveAt(th[t].keys, alg)) = 2
        /\ \A i \in ActiveAt(th[t].keys, alg) :
              th[t].keys[Last(ActiveAt(th[t].keys, alg))] <= th[t].keys[i]
        /\ Cardinality(DOMAIN th[t].newCache) >= 2

\* The pairs (a, b) of records of one algorithm, both stored and active when
\* the call of r began, b saved from outside after a was created.
SavedBeside(r) ==
    {p \in r.pre.act \X r.pre.act :
        /\ p[1] < p[2]
        /\ heap[p[1]].Alg = heap[p[2]].Alg
        /\ heap[p[2]].KID \in SaveKIDs}

\* C30 as claimed: a successful ReloadCache called when a second active
\* record of an algorithm has been saved beside an earlier one makes the
\* saved record the active key of the algorithm.
C30_Original ==
    \A t \in Threads :
        LET r == th[t] IN
        (Finished(t, "ReloadCache") /\ r.err = "nil")
        => \A p \in SavedBeside(r) : active[heap[p[2]].Alg].key = p[2]

\* C30 for what the code does: after such a ReloadCache the active key of
\* the algorithm is one of the two records, and both have their entry in the
\* cache.
C30_EitherActiveRecordWins ==
    \A t \in Threads :
        LET r == th[t] IN
        (Finished(t, "ReloadCache") /\ r.err = "nil")
        => \A p \in SavedBeside(r) :
              /\ heap[p[2]].Alg \in DOMAIN active
              /\ active[heap[p[2]].Alg].key \in {p[1], p[2]}
              /\ heap[p[1]].KID \in DOMAIN cache /\ cache[heap[p[1]].KID].key = p[1]
              /\ heap[p[2]].KID \in DOMAIN cache /\ cache[heap[p[2]].KID].key = p[2]

\* after such a ReloadCache the earlier record is the active key
C30_Witness ==
    \E t \in Threads :
        /\ Finished(t, "ReloadCache") /\ th[t].err = "nil"
        /\ \E p \in SavedBeside(th[t]) : active[heap[p[2]].Alg].key = p[1]
\* C31: Rotate lists the records storage holds at that moment; the record
\* it prepares as old is a copy, with is_active false, of the first active
\* record of its algorithm in that list, and none when the list has no such
\* record, whatever the cache holds; store.Rotate deactivates the stored
\* record with old's id and inserts the new record, and changes no stored
\* record when old is absent; a Rotate that succeeds has called store.Rotate
\* once.
C31_OldKeyFromFreshList ==
    [][\A t \in Threads :
          LET r == th[t] IN
          /\ (r.pc = "rot_list" /\ th'[t].pc = "rot_prep")
             => /\ Range(th'[t].keys) = StoreAddrs
                /\ Len(th'[t].keys) = Cardinality(StoreAddrs)
          /\ (r.pc = "rot_prep" /\ th'[t].pc = "rot_store")
             => LET at == ActiveAt(r.keys, r.alg)
                    old == th'[t].oldKey
                IN IF at = {} THEN old = NilKey
                   ELSE /\ old # NilKey
                        /\ ~old.IsActive
                        /\ [old EXCEPT !.IsActive = TRUE]
                              = heap[r.keys[CHOOSE i \in at : \A j \in at : i <= j]]
          /\ StoredIn(t)
             => /\ th'[t].calls.storeRotate = 1
                /\ Len(heap') = Len(heap) + 1
                /\ \A a \in 1..Len(heap) :
                      IF r.oldKey # NilKey /\ r.oldKey.KID \in DOMAIN data
                         /\ a = data[r.oldKey.KID]
                      THEN heap'[a] = [heap[a] EXCEPT !.IsActive = FALSE]
                      ELSE heap'[a] = heap[a]
          /\ (r.pc = "rot_ret" /\ r.op = "Rotate" /\ r.rotErr = "nil")
             => r.calls.storeRotate = 1 /\ r.calls.list = 2]_vars

\* a Rotate has succeeded whose old record was an active record that storage
\* held and the cache did not
C31_Witness ==
    \E t \in Threads :
        /\ Finished(t, "Rotate") /\ th[t].err = "nil"
        /\ th[t].oldKey # NilKey
        /\ th[t].alg \notin DOMAIN th[t].pre.active
        /\ ~heap[data[th[t].oldKey.KID]].IsActive
\* C32: after a ReloadCache that returned nil, every entry of active is
\* the handle that cache holds under the id of the entry's record; that
\* record has the entry's algorithm and is marked active.
C32_ActiveContainedInCache ==
    \A t \in Threads :
        (Finished(t, "ReloadCache") /\ th[t].err = "nil")
        => \A alg \in DOMAIN active :
              LET k == heap[active[alg].key] IN
              /\ k.KID \in DOMAIN cache
              /\ cache[k.KID] = active[alg]
              /\ k.Alg = alg
              /\ k.IsActive
              /\ active[alg].pub = Public(active[alg].priv)

\* a ReloadCache has returned nil with two algorithms in active and a third
\* record in the cache only
C32_Witness ==
    \E t \in Threads :
        /\ Finished(t, "ReloadCache") /\ th[t].err = "nil"
        /\ Cardinality(DOMAIN active) = 2
        /\ Cardinality(DOMAIN cache) = 3
\* The private key stored in the record at address a.
StoredPriv(a) == parsePrivateKey(MockDecrypt(FALSE, heap[a].EncryptedKey).val).val

\* C33: a Sign that succeeds gave its builder the id of the record of the
\* handle it resolved and signed with the private key stored in that same
\* record, over the bytes the builder made with that id, whatever Rotate or
\* ReloadCache completed meanwhile; the signature verifies against the
\* record's public key with the record's algorithm.
C33_SignUsesOneHandle ==
    \A t \in Threads :
        LET r == th[t] IN
        (Finished(t, "Sign") /\ r.err = "nil")
        => /\ r.ck # NilCK
           /\ r.kid = heap[r.ck.key].KID
           /\ heap[r.ck.key].Alg = r.alg
           /\ r.out.by = Public(StoredPriv(r.ck.key))
           /\ verifySignature(heap[r.ck.key].Alg, Public(StoredPriv(r.ck.key)),
                              <<r.kid, r.payload>>, r.out) = "nil"

\* a Sign has succeeded with a handle whose record a Rotate that ran
\* meanwhile has replaced as the active key
C33_Witness ==
    \E t \in Threads :
        /\ Finished(t, "Sign") /\ th[t].err = "nil"
        /\ th[t].alg \in DOMAIN active
        /\ active[th[t].alg].key # th[t].ck.key
        /\ ~heap[th[t].ck.key].IsActive
        /\ th[t].over # {}
\* A Rotate of t has returned nil, no call is running, and the record it
\* created is the newest stored record of its algorithm.
RotatedAndQuiet(t) ==
    /\ Finished(t, "Rotate") /\ th[t].err = "nil"
    /\ \A u \in Threads : ~Running(u)
    /\ th[t].newKey.KID \in DOMAIN data
    /\ \A a \in StoreAddrs :
          heap[a].Alg = th[t].alg => a <= data[th[t].newKey.KID]

\* C34 as claimed: once a Rotate has returned nil and every call has
\* finished, with no later rotation of the algorithm, the active entry of the
\* algorithm is the record that Rotate created, whatever reloads ran
\* concurrently with it.
C34_Original ==
    \A t \in Threads :
        RotatedAndQuiet(t)
        => /\ th[t].alg \in DOMAIN active
           /\ active[th[t].alg].key = data[th[t].newKey.KID]

\* C34 for the calls nothing overlapped: once a Rotate that no other call
\* overlapped has returned nil and every call has finished, with no later
\* rotation of the algorithm and the record created being the only active
\* one of the algorithm in storage, the active entry of the algorithm is the
\* record that Rotate created.
C34_RotatedKeyActiveWhenAlone ==
    \A t \in Threads :
        (/\ RotatedAndQuiet(t) /\ th[t].over = {}
         /\ ActiveAddrs(th[t].alg) = {data[th[t].newKey.KID]})
        => /\ th[t].alg \in DOMAIN active
           /\ active[th[t].alg].key = data[th[t].newKey.KID]

\* a Rotate that nothing overlapped has returned nil, the other goroutine has
\* reloaded after it, and the record created is the active one
C34_Witness ==
    \E t, u \in Threads :
        /\ RotatedAndQuiet(t) /\ th[t].over = {}
        /\ ActiveAddrs(th[t].alg) = {data[th[t].newKey.KID]}
        /\ Finished(u, "ReloadCache") /\ th[u].err = "nil" /\ th[u].over = {}
        /\ th[u].calls.reload = 1
        /\ active[th[t].alg].key = data[th[t].newKey.KID]

\* ------------------------------------------------- keys made by the manager
\* One goroutine starts on an empty store that only the manager writes: it
\* rotates, initializes, rotates by expiry and reloads as time passes, and
\* signs and verifies with what the cache holds.
KindLists == {<<AlgEdDSA>>, <<AlgES256, AlgRS256>>}

CallKinds(t) ==
    \/ CallReloadCache(t, NoPre)
    \/ \E alg \in SupportedAlgs : CallRotate(t, alg, NoPre)
    \/ \E algs \in KindLists : CallInitKeys(t, algs, NoPre)
    \/ CallRotateExpired(t, NoPre)
    \/ \E alg \in SupportedAlgs, p \in Payloads : CallSign(t, alg, p, NoPre)
    \/ \E a \in 1..Len(heap), p \in Payloads :
          CallVerify(t, heap[a].KID, <<heap[a].KID, p>>, SigOf(a, p), NoPre)

StepKinds(t) ==
    \/ ReloadList(t)
    \/ ReloadLoop(t)
    \/ ReloadSwapCache(t)
    \/ ReloadSwapActive(t)
    \/ ReloadReturn(t)
    \/ LookupRLock(t)
    \/ LookupRead(t)
    \/ LookupRLockAgain(t)
    \/ LookupReadAgain(t)
    \/ Sign(t)
    \/ Verify(t)
    \/ RotatePolicy(t)
    \/ RotateList(t)
    \/ RotatePrepare(t)
    \/ RotateStore(t)
    \/ RotateReturn(t)
    \/ InitKeysRLock(t)
    \/ InitKeysRead(t)
    \/ RotateExpiredRLock(t)
    \/ RotateExpiredSnapshot(t)
    \/ RotateExpiredLoop(t)

NextKinds == Tick \/ CallKinds("g1") \/ StepKinds("g1")

SpecKinds == Init /\ [][NextKinds]_vars

\* The handle holds a private key of its record's algorithm and the public
\* key derived from it.
KeyFits(ck) ==
    /\ ck.priv.kind = KindOf(heap[ck.key].Alg)
    /\ ck.priv.curve = CurveOf(heap[ck.key].Alg)
    /\ ck.pub = Public(ck.priv)

WrongKeyErrors ==
    {"public key is not RSA", "public key is not ECDSA", "public key is not Ed25519",
     "ecdsa convert"}

\* C35: on a store that starts empty and that only Rotate, InitKeys,
\* RotateExpired and ReloadCache write, every handle of the cache and of the
\* active map, and every handle a lookup returned, holds a private key of
\* the kind of its record's algorithm (RSA, ECDSA on P-256, Ed25519) and the
\* public key derived from it; Sign signs for an algorithm with a key of
\* that algorithm's kind and neither Sign nor Verify ends with a
\* wrong-key-type error.
C35_CachedKeyMatchesAlg ==
    /\ \A kid \in DOMAIN cache : KeyFits(cache[kid])
    /\ \A alg \in DOMAIN active : KeyFits(active[alg])
    /\ \A t \in Threads :
          /\ (th[t].ck # NilCK => KeyFits(th[t].ck))
          /\ (th[t].op = "Sign" /\ th[t].ck # NilCK
                 => th[t].ck.priv.kind = KindOf(th[t].alg))
          /\ (th[t].op \in {"Sign", "Verify"} => th[t].err \notin WrongKeyErrors)

C35_Witness ==
    \E t \in Threads :
        /\ Finished(t, "Sign") /\ th[t].err = "nil" /\ th[t].alg = AlgEdDSA
        /\ {heap[cache[kid].key].Alg : kid \in DOMAIN cache} = SupportedAlgs
        /\ DOMAIN active = SupportedAlgs

\* C36: in every step of the manager's operations the stored records only
\* accumulate and only deactivate: every id stored before the step is stored
\* after it with the same record, so the count never decreases; the step in
\* which a Rotate stores adds exactly one record and no other step adds any;
\* a record that is inactive before the step is inactive after it.
C36_RecordsAccumulateAndDeactivate ==
    [][/\ DOMAIN data \subseteq DOMAIN data'
       /\ \A kid \in DOMAIN data :
             /\ data'[kid] = data[kid]
             /\ (~heap[data[kid]].IsActive => ~heap'[data'[kid]].IsActive)
       /\ Cardinality(DOMAIN data') >= Cardinality(DOMAIN data)
       /\ \A t \in Threads :
             StoredIn(t) => Cardinality(DOMAIN data') = Cardinality(DOMAIN data) + 1
       /\ ((\A t \in Threads : ~StoredIn(t)) => DOMAIN data' = DOMAIN data)]_vars

C36_Witness ==
    \E t \in Threads :
        /\ Finished(t, "RotateExpired") /\ th[t].err = "nil"
        /\ Cardinality(DOMAIN data) = MaxKeys
        /\ \E k1, k2 \in DOMAIN data :
              /\ heap[data[k1]].Alg = heap[data[k2]].Alg
              /\ ~heap[data[k1]].IsActive /\ heap[data[k2]].IsActive

\* The records stored since the call of r began.
CreatedSince(r) == StoreAddrs \ {r.pre.data[kid] : kid \in DOMAIN r.pre.data}

\* C37: an InitKeys in which a Rotate failed has returned the error of that
\* Rotate: the failed Rotate is the last thing it did, for the algorithm it
\* examined last, and every Rotate before it succeeded; no algorithm after
\* that one was examined or rotated. When nobody else wrote the store during
\* the call, every algorithm rotated before the failure has an active entry
\* and a record created in this call that is stored, active and cached, and
\* every record created in this call is of an algorithm Rotate was called
\* for.
C37_InitKeysStopsAtFirstFailure ==
    \A t \in Threads :
        LET r == th[t]
            m == Len(r.seen)
            n == Len(r.outs)
        IN
        (Finished(t, "InitKeys") /\ (r.err # "nil" \/ \E k \in 1..n : r.outs[k].err # "nil"))
        => /\ r.err = "failed to initialize key"
           /\ m >= 1 /\ m <= Len(r.algs) /\ n >= 1 /\ n = Len(r.rotated)
           /\ ~r.seen[m] /\ r.outs[n].alg = r.algs[m] /\ r.outs[n].err # "nil"
           /\ \A k \in 1..(n - 1) : r.outs[k].err = "nil"
           /\ n = Cardinality({k \in 1..m : ~r.seen[k]})
           /\ \A k \in 1..n : r.rotated[k] \in {r.algs[i] : i \in 1..m}
           /\ r.raced = {}
              => /\ \A k \in 1..(n - 1) :
                       /\ r.outs[k].alg \in DOMAIN active
                       /\ \E a \in CreatedSince(r) :
                             /\ heap[a].Alg = r.outs[k].alg /\ heap[a].IsActive
                             /\ heap[a].KID \in DOMAIN cache
                             /\ cache[heap[a].KID].key = a
                 /\ \A a \in CreatedSince(r) : heap[a].Alg \in Range(r.rotated)

\* InitKeys([RS256, ES256]) created the RS256 key, then failed on ES256
C37_Witness ==
    \E t \in Threads :
        /\ Finished(t, "InitKeys") /\ th[t].err = "failed to initialize key"
        /\ th[t].algs = <<AlgRS256, AlgES256>>
        /\ th[t].raced = {}
        /\ th[t].outs = <<[alg |-> AlgRS256, err |-> "nil"],
                          [alg |-> AlgES256, err |-> "rotate failed"]>>
        /\ AlgRS256 \in DOMAIN active
        /\ active[AlgRS256].key \in CreatedSince(th[t])
        /\ ActiveAddrs(AlgES256) = {}

\* The active map and the store agree on alg: the algorithm has an entry
\* exactly if it has a stored active record, and the entry is such a record.
Agree(alg) ==
    /\ alg \in DOMAIN active <=> ActiveAddrs(alg) # {}
    /\ alg \in DOMAIN active => active[alg].key \in ActiveAddrs(alg)

\* The reload of a Rotate that no other call overlapped and nobody else
\* wrote beside installs its active map in this step.
RotateSwapsIn(t) ==
    /\ th[t].pc = "rl_swap2" /\ th'[t].pc = "rl_ret"
    /\ th[t].op = "Rotate" /\ th[t].raced = {} /\ th[t].over = {}

\* C38 as claimed: when the reload of a Rotate(alg) that ran alone installs
\* its maps, every other algorithm on which the active map agreed with the
\* store has the active key id it had before, or none as before.
C38_Original ==
    [][\A t \in Threads :
          RotateSwapsIn(t)
          => \A alg \in SupportedAlgs \ {th[t].alg} :
                Agree(alg)
                => /\ alg \in DOMAIN active' <=> alg \in DOMAIN active
                   /\ alg \in DOMAIN active
                      => heap[active'[alg].key].KID = heap[active[alg].key].KID]_vars

\* C38 for what the code does: the step in which Rotate(alg) stores changes
\* is_active of no stored record of another algorithm and removes none; when
\* the reload of a Rotate(alg) that ran alone installs its maps, every other
\* algorithm on which the active map agreed with the store has an active key
\* exactly if it had one before, the key is a stored active record of the
\* algorithm, and it is the same key as before when the store holds one
\* active record of the algorithm.
C38_RotateLeavesOtherAlgs ==
    [][\A t \in Threads :
          /\ StoredIn(t)
             => \A kid \in DOMAIN data :
                   heap[data[kid]].Alg # th[t].alg
                   => /\ kid \in DOMAIN data' /\ data'[kid] = data[kid]
                      /\ heap'[data[kid]].IsActive = heap[data[kid]].IsActive
          /\ RotateSwapsIn(t)
             => \A alg \in SupportedAlgs \ {th[t].alg} :
                   Agree(alg)
                   => /\ alg \in DOMAIN active' <=> alg \in DOMAIN active
                      /\ alg \in DOMAIN active
                         => /\ active'[alg].key \in ActiveAddrs(alg)
                            /\ Cardinality(ActiveAddrs(alg)) = 1
                               => active'[alg].key = active[alg].key]_vars

\* Rotate(ES256), alone, has made its record the ES256 key and left the one
\* active RS256 record the RS256 key
C38_Witness ==
    \E t \in Threads :
        LET r == th[t] IN
        /\ Finished(t, "Rotate") /\ r.err = "nil" /\ r.raced = {} /\ r.over = {}
        /\ r.alg = AlgES256
        /\ active[AlgES256].key = data[r.newKey.KID]
        /\ Cardinality(ActiveAddrs(AlgRS256)) = 1
        /\ Cardinality({a \in StoreAddrs : heap[a].Alg = AlgRS256}) = 2
        /\ Agree(AlgRS256)
====
